---- MODULE Spec2Model ----
(***************************************************************************)
(* A model of the video2video frame pipeline: the VideoEditor component    *)
(* (src/src/components/VideoEditor.tsx), the client-side reassembly call   *)
(* (src/src/lib/video-processor.ts), the reassemble-video route            *)
(* (src/unnamed/part_002), the extract-frames route                        *)
(* (src/src/app/api/extract-frames/route.ts) and the analyze-diff route    *)
(* (src/unnamed/part_001).                                                 *)
(*                                                                         *)
(* React state is one global store; a state setter is an assignment.  An   *)
(* async handler is a "run": a record holding the handler's locals and its *)
(* position (pc).  Every action is the code between two suspension points  *)
(* (awaits) of a handler, together with the microtask continuations that   *)
(* the completion triggers (Promise.all settling, catch, finally).         *)
(* The auto-start effect runs right after the commit that makes its        *)
(* condition true, so every other action waits while it is pending.        *)
(*                                                                         *)
(* Not modelled in the component, because no modelled condition reads      *)
(* them: the sampling settings (frameInterval, maxFrames,                  *)
(* showAdvancedSettings; the extract-frames route takes them as inputs)    *)
(* and currentEditingFrame, which only styles the frame grid.  The prompt  *)
(* is taken to be non-empty: "Extract Frames" is disabled otherwise.  An   *)
(* extracted frame list is its length n (indices 0..n-1); an edited image  *)
(* URL is the pair of the run and the frame index it was issued for.       *)
(***************************************************************************)
EXTENDS Integers, Sequences, FiniteSets, TLC

\* ------------------------------------------------------------- bounds
MaxFrames == 3
MaxRuns == 2
MaxExtract == 1

MaxPromptLen == 2100

\* Handler invocations in one session with repeated manual assembly.
MaxSessionRuns == 3

\* The reassemble-video requests tried: calls, frames per request, and
\* distinct frame references.
MaxCalls == 2
MaxStaged == 2
MaxRefs == 2

\* The edit-frame requests tried: calls and images per request.
MaxEditCalls == 2
MaxImages == 2

\* The longest frame list the sequential chaining loop is followed on, and the
\* number of different images the edit service may answer with.
MaxChain == 4
MaxVersions == 2

\* The largest maxFrames sent to the parallel extraction route.
MaxParallelRequested == 60

\* The longest analyzer response tried.
MaxResponseLen == 12000

\* The most frames the parallel route extracts concurrently.
MaxParallelFrames == 4

\* The extraction requests tried: clip length in milliseconds, interval and
\* maxFrames.
MaxDurationMs == 10000
MaxInterval == 30
MaxRequested == 10

\* Frames of the longest clip tried: one more than the URLs probed.
MaxLongFrames == 4

\* ------------------------------------------------------ program constants
maxRetries == 2
MaxProbes == 3
DiffBudget == 1500          \* maxDiffLength = 1500 - originalPrompt.length
PromptCeiling == 2000       \* the edit-frame route rejects longer prompts
DefaultInterval == 30        \* extractFrames: interval when the option is undefined
DefaultMaxFrames == 10       \* extractFrames: maxFrames when the option is undefined
SafetyLimit == 50            \* the parallel extraction route's "limiting to 50"
MaxDataUriLen == 10485760   \* 10 * 1024 * 1024: the route rejects longer data URIs
MaxDiffSpec == 5000         \* the analyze-diff route truncates to this length
HeadLen == 27               \* 'Apply this specification: "'
DetailsLen == 12            \* '"\n\nDetails: '
TailLen == 56               \* '\n\nApply these changes precisely to maintain consistency.'
MarkerLen == 15             \* '... [truncated]'
DiffKept == 4997            \* detailedDiff.substring(0, 4997)
EllipsisLen == 3            \* "..."

VARIABLES
    currentStep,      \* ProcessingStep
    isProcessing,     \* boolean
    error,            \* "null" or a message
    extractedFrames,  \* number of extracted frames; their indices are 0..n-1
    editedFrames,     \* sequence of EditedFrame
    progress,         \* EditProgress or NullProgress
    editedVideoUrl,   \* NullVideo or the encoded video
    diffData,         \* [detailedDiff, firstFrameEdited]: run that set them, 0 = ""
    onCompleteCalls,  \* videos handed to the onComplete callback
    extracting,       \* extraction requests in flight
    runs,             \* run id -> run record (handler locals and position)
    composed,         \* the last edit request composed by processFrameWithDiff
    extraction,       \* the request the extract-frames route got and its response
    analysis,         \* the analyzer's response and the analyze-diff route's answer
    reassembly,       \* call id -> a request to the reassemble-video route and its files
    editCalls,        \* call id -> a request to the edit-frame route and its answer
    chain,            \* the sequential chaining handler: loop position, list, requests issued
    editor,           \* GeminiEditor.editFrames: loop position, list, requests issued
    extractionPromises \* the parallel route's concurrent decoder calls and its answer

\* The component's store and runs.
componentVars == <<currentStep, isProcessing, error, extractedFrames, editedFrames,
                   progress, editedVideoUrl, diffData, onCompleteCalls, extracting,
                   runs>>

\* The requests the routes and the request builders are followed on.
routeVars == <<composed, extraction, analysis, reassembly, editCalls, chain, editor, extractionPromises>>

vars == <<componentVars, routeVars>>

Steps == {"setup", "extracting", "preview-frames", "editing", "reassembling", "complete"}

\* The largest number of handler invocations any specification makes.
RunCap == IF MaxRuns > MaxSessionRuns THEN MaxRuns ELSE MaxSessionRuns

RunIds == 1..RunCap
\* The largest frame count any specification extracts.
FrameCap == IF MaxFrames > MaxLongFrames THEN MaxFrames ELSE MaxLongFrames

FanoutIdx == 1..(FrameCap - 1)

NullProgress == [current |-> 0, total |-> 0, currentFrame |-> -1, status |-> "null"]
NullVideo == <<>>
NoDiff == [detailedDiff |-> 0, firstFrameEdited |-> 0]
NoRequest == [originalPrompt |-> 0, detailedDiffSpec |-> 0, prompt |-> <<>>, status |-> 0]
NoExtraction == [status |-> 0]
NoAnalysis == [status |-> 0]

\* previousEditedUrl = null.
NullUrl == [frame |-> -1, kind |-> "null", version |-> 0]

\* GeminiEditor.editFrames before it is called.
NoEditor ==
    [pc |-> "idle", n |-> 0, i |-> 0, editedFrames |-> <<>>,
     previousEditedUrl |-> NullUrl, issued |-> <<>>]

ParallelFrameIdx == 0..(MaxParallelFrames - 1)

\* The parallel route before the frame promises are created.
NoPromises ==
    [pc |-> "idle", n |-> 0, promises |-> [i \in ParallelFrameIdx |-> "none"],
     values |-> [i \in ParallelFrameIdx |-> [index |-> -1]],
     completed |-> <<>>, status |-> 0, frames |-> <<>>]

\* The sequential chaining handler before it is started.
NoChain == [pc |-> "idle", n |-> 0, i |-> 0, processedFrames |-> <<>>, issued |-> <<>>]

EditCallIds == 1..MaxEditCalls

\* A request the edit-frame route has not received yet.
NoEditCall ==
    [pc |-> "idle", keyConfigured |-> FALSE, prompt |-> <<>>, imageUrls |-> <<>>,
     outcome |-> "none", called |-> FALSE, status |-> 0]

CallIds == 1..MaxCalls
StagedIdx == 1..MaxStaged

\* A request the reassemble-video route has not received yet.
NoCall ==
    [pc |-> "idle", input |-> "none", frames |-> <<>>,
     fetch |-> [k \in StagedIdx |-> "none"],
     tempDir |-> FALSE, files |-> {}, tempVideo |-> FALSE,
     encoderInvoked |-> FALSE,
     status |-> 0, video |-> <<>>, gone |-> {}]

\* The URL the edit service issued for frame i in run r.
EditedUrl(r, i) == <<r, i>>

\* An EditedFrame as the component holds it.
EditedFrame(r, i) == [index |-> i, editedUrl |-> EditedUrl(r, i)]

NoRun ==
    [kind |-> "none", pc |-> "idle", n |-> 0,
     edits |-> [i \in FanoutIdx |-> "none"],
     allEditedFrames |-> <<>>, completedFrames |-> 0, fanoutProgress |-> <<>>,
     reassemblyAttempt |-> 0, request |-> <<>>,
     calls |-> <<>>, waits |-> 0, waitsElapsed |-> 0,
     probesPending |-> 0, probesIssued |-> 0, allUrlsValid |-> "unset"]

\* The next unused run id among 1..cap, 0 when there is none.
FreeRunWithin(cap) ==
    IF \E r \in 1..cap : runs[r].kind = "none"
    THEN CHOOSE r \in 1..cap : runs[r].kind = "none"
                               /\ \A q \in 1..cap : q < r => runs[q].kind # "none"
    ELSE 0

FreeRun == FreeRunWithin(MaxRuns)

Init ==
    /\ currentStep = "setup"
    /\ isProcessing = FALSE
    /\ error = "null"
    /\ extractedFrames = 0
    /\ editedFrames = <<>>
    /\ progress = NullProgress
    /\ editedVideoUrl = NullVideo
    /\ diffData = NoDiff
    /\ onCompleteCalls = <<>>
    /\ extracting = 0
    /\ runs = [r \in RunIds |-> NoRun]
    /\ composed = NoRequest
    /\ extraction = NoExtraction
    /\ analysis = NoAnalysis
    /\ reassembly = [c \in CallIds |-> NoCall]
    /\ editCalls = [c \in EditCallIds |-> NoEditCall]
    /\ chain = NoChain
    /\ editor = NoEditor
    /\ extractionPromises = NoPromises

\* ------------------------------------------------------------ helpers
Min(a, b) == IF a < b THEN a ELSE b

\* The setProgress payload while a run is processing.
Processing(cur, run, frame) ==
    [current |-> cur, total |-> run.n + 2, currentFrame |-> frame, status |-> "processing"]

\* Variant: the position is taken from the frame's index.
FanoutProgressByIndex(run, done, i) == Processing(2 + i, run, i)

\* processFrameWithStreaming: current = 2 + completedFrames, currentFrame =
\* frameIndex.
FanoutProgress(run, done, i) == Processing(2 + done, run, i)

\* The condition of the auto-start effect.
AutoStartCond ==
    /\ currentStep = "editing"
    /\ extractedFrames > 0
    /\ ~isProcessing
    /\ Len(editedFrames) = 0

\* The effect is flushed before any later event is handled.
EffectPending == AutoStartCond

\* Variant: Promise.allSettled, which waits for every edit and never rejects.
PromiseAllSettled(edits, n) ==
    IF \E i \in 1..(n - 1) : edits[i] = "inflight" THEN "pending" ELSE "fulfilled"

\* Promise.all over the n - 1 dispatched edits: rejected by the first failure,
\* fulfilled when every edit is fulfilled.
PromiseAll(edits, n) ==
    IF \E i \in 1..(n - 1) : edits[i] = "fail" THEN "rejected"
    ELSE IF \A i \in 1..(n - 1) : edits[i] = "ok" THEN "fulfilled"
    ELSE "pending"

\* Variant: a completion that arrives after the handler left the fan-out is
\* dropped.
PushedWhileAwaited(run, frame) ==
    IF run.pc = "fanout" THEN Append(run.allEditedFrames, frame) ELSE run.allEditedFrames

\* allEditedFrames.push(result): every completion appends, whatever the
\* handler has done in the meantime.
Pushed(run, frame) == Append(run.allEditedFrames, frame)

\* The editing step renders "Assemble Video Now".
ManualOffered ==
    /\ currentStep = "editing"
    /\ ~isProcessing
    /\ Len(editedFrames) > 0

\* frames.map(frame => ({index, url: frame.editedUrl}))
EditedFramesForReassembly(frames) ==
    [k \in 1..Len(frames) |-> [index |-> frames[k].index, url |-> frames[k].editedUrl]]

\* The JSON body reassembleVideo posts: each frame keeps base64 and url only.
RequestBody(frames) == [k \in 1..Len(frames) |-> [url |-> frames[k].url]]

\* The route stages body element at array position k as frame_<k>.png;
\* the encoder reads the files in that order.  Position k is at k + 1 here.
StagedFiles(body) == [k \in 1..Len(body) |-> body[k].url]

\* What one reassembly request can answer: 400 for an empty list, otherwise
\* the encoded video, or 500 when a frame fetch or the encoder fails.
RouteOutcomes(body) == IF Len(body) = 0 THEN {"fail"} ELSE {"ok", "fail"}

\* The while condition and the last-attempt test of the retry loop.
WhileCond(attempt) == attempt <= maxRetries

\* Variant: an off-by-one last-attempt test.
IsLastAttemptOffByOne(attempt) == attempt = maxRetries + 1

IsLastAttempt(attempt) == attempt = maxRetries

\* Variant: the catch block leaves the session on the editing step.
CatchToEditing == "editing"

\* The step the catch block of handleProcessFrames sets.
CatchStep == "preview-frames"

\* Variant: exhausted retries handled like any other failure.
FallbackToPreview == "preview-frames"

\* The step set when every automatic reassembly attempt failed.
FallbackStep == "editing"

\* Variant: every URL of the request is probed (no slice(0, 3)).
StartValidationProbesAll(run) ==
    LET request == EditedFramesForReassembly(run.allEditedFrames)
    IN [run EXCEPT !.pc = "validate",
                   !.request = request,
                   !.probesPending = Len(request),
                   !.probesIssued = Len(request),
                   !.allUrlsValid = "valid"]

\* Lines 353-379: the step moves to reassembling, the request list is taken
\* from the local allEditedFrames and a HEAD probe is sent for each of its
\* first MaxProbes URLs.
StartValidation(run) ==
    LET request == EditedFramesForReassembly(run.allEditedFrames)
        count == Min(MaxProbes, Len(request))
    IN [run EXCEPT !.pc = "validate",
                   !.request = request,
                   !.probesPending = count,
                   !.probesIssued = count,
                   !.allUrlsValid = "valid"]

\* validationResults.every(result => result), folded over the probes as they
\* settle (the probes are interchangeable: only the conjunction is read).
Every(soFar, result) == IF soFar = "valid" /\ result = "valid" THEN "valid" ELSE "invalid"

\* One videoProcessor.reassembleVideo call is issued.
CallReassemble(run) == [run EXCEPT !.pc = "encode", !.calls = Append(run.calls, "pending")]

Settle(run, outcome) == [run EXCEPT !.calls[Len(run.calls)] = outcome]

\* ------------------------------------------------------------ extraction
\* "Extract Frames" button: handleExtractFrames up to its await.
ExtractStart ==
    /\ ~EffectPending
    /\ UNCHANGED routeVars
    /\ currentStep = "setup" /\ ~isProcessing
    /\ extracting < MaxExtract
    /\ isProcessing' = TRUE
    /\ error' = "null"
    /\ currentStep' = "extracting"
    /\ extracting' = extracting + 1
    /\ UNCHANGED <<extractedFrames, editedFrames, progress, editedVideoUrl,
                   diffData, onCompleteCalls, runs>>

ExtractOk(n) ==
    /\ ~EffectPending
    /\ UNCHANGED routeVars
    /\ extracting > 0
    /\ extracting' = extracting - 1
    /\ extractedFrames' = n
    /\ currentStep' = "editing"
    /\ isProcessing' = FALSE
    /\ UNCHANGED <<error, editedFrames, progress, editedVideoUrl, diffData,
                   onCompleteCalls, runs>>

\* Variant: a failed extraction moves on to the frame preview.
ExtractCatchToPreview == "preview-frames"

\* The step the catch block of handleExtractFrames sets.
ExtractCatchStep == "setup"

\* The extraction request failed (the route answered 400 or 500, or the fetch
\* threw): catch + finally of handleExtractFrames.
ExtractFail ==
    /\ ~EffectPending
    /\ UNCHANGED routeVars
    /\ extracting > 0
    /\ extracting' = extracting - 1
    /\ error' = "Failed to extract frames"
    /\ currentStep' = ExtractCatchStep
    /\ isProcessing' = FALSE
    /\ UNCHANGED <<extractedFrames, editedFrames, progress, editedVideoUrl,
                   diffData, onCompleteCalls, runs>>

\* ---------------------------------------------------- handleProcessFrames
\* Variant: the handler without its check for an empty frame list.
HandleProcessFramesUnchecked ==
    /\ FreeRun # 0
    /\ isProcessing' = TRUE
    /\ error' = "null"
    /\ currentStep' = "editing"
    /\ editedFrames' = <<>>
    /\ runs' = [runs EXCEPT ![FreeRun] =
                   [NoRun EXCEPT !.kind = "process", !.pc = "firstFrame",
                                 !.n = extractedFrames]]
    /\ progress' = [current |-> 1, total |-> extractedFrames + 2,
                    currentFrame |-> 0, status |-> "processing"]
    /\ UNCHANGED <<extractedFrames, editedVideoUrl, diffData,
                   onCompleteCalls, extracting>>

\* The handler up to its first await (the reference-frame edit request).
HandleProcessFrames ==
    IF extractedFrames = 0
    THEN /\ error' = "No frames available to process"
         /\ UNCHANGED <<currentStep, isProcessing, extractedFrames, editedFrames,
                        progress, editedVideoUrl, diffData, onCompleteCalls,
                        extracting, runs>>
    ELSE /\ FreeRun # 0
         /\ isProcessing' = TRUE
         /\ error' = "null"
         /\ currentStep' = "editing"
         /\ editedFrames' = <<>>
         /\ runs' = [runs EXCEPT ![FreeRun] =
                        [NoRun EXCEPT !.kind = "process", !.pc = "firstFrame",
                                      !.n = extractedFrames]]
         /\ progress' = [current |-> 1, total |-> extractedFrames + 2,
                         currentFrame |-> 0, status |-> "processing"]
         /\ UNCHANGED <<extractedFrames, editedVideoUrl, diffData,
                        onCompleteCalls, extracting>>

\* useEffect: auto-start when the editing step is shown with nothing edited.
AutoStart == AutoStartCond /\ HandleProcessFrames /\ UNCHANGED routeVars

\* "Start AI Editing" button of the preview-frames step.
StartAIEditing ==
    /\ ~EffectPending
    /\ UNCHANGED routeVars
    /\ currentStep = "preview-frames" /\ ~isProcessing
    /\ HandleProcessFrames

\* "Retry Editing" button of the editing step.
RetryEditing ==
    /\ ~EffectPending
    /\ UNCHANGED routeVars
    /\ currentStep = "editing" /\ ~isProcessing
    /\ HandleProcessFrames

\* catch + finally of handleProcessFrames.
Catch(r, run, msg) ==
    /\ error' = msg
    /\ currentStep' = CatchStep
    /\ isProcessing' = FALSE
    /\ runs' = [runs EXCEPT ![r] = [run EXCEPT !.pc = "done"]]

FirstFrameOk(r) ==
    /\ ~EffectPending
    /\ UNCHANGED routeVars
    /\ runs[r].kind = "process" /\ runs[r].pc = "firstFrame"
    /\ diffData' = [diffData EXCEPT !.firstFrameEdited = r]
    /\ editedFrames' = <<EditedFrame(r, 0)>>
    /\ progress' = Processing(2, runs[r], 0)
    /\ runs' = [runs EXCEPT ![r].pc = "diff"]
    /\ UNCHANGED <<currentStep, isProcessing, error, extractedFrames,
                   editedVideoUrl, onCompleteCalls, extracting>>

\* Variant: a failed reference-frame edit is not thrown; the handler goes on
\* to the diff analysis with nothing recorded.
FirstFrameFailIgnored(r) ==
    /\ ~EffectPending
    /\ UNCHANGED routeVars
    /\ runs[r].kind = "process" /\ runs[r].pc = "firstFrame"
    /\ runs' = [runs EXCEPT ![r].pc = "diff"]
    /\ UNCHANGED <<currentStep, isProcessing, error, extractedFrames, editedFrames,
                   progress, editedVideoUrl, diffData, onCompleteCalls, extracting>>

FirstFrameFail(r) ==
    /\ ~EffectPending
    /\ UNCHANGED routeVars
    /\ runs[r].kind = "process" /\ runs[r].pc = "firstFrame"
    /\ Catch(r, runs[r], "First frame editing failed")
    /\ UNCHANGED <<extractedFrames, editedFrames, progress, editedVideoUrl,
                   diffData, onCompleteCalls, extracting>>

\* Variant: the last remaining frame is not dispatched.
ParallelPromisesButLast(n) == [i \in FanoutIdx |-> IF i < n - 1 THEN "inflight" ELSE "none"]

\* remainingFrames.map((frame, i) => processFrameWithStreaming(frame, i + 1)):
\* one edit call for every index 1..n-1, all started before Promise.all is
\* awaited.
ParallelPromises(n) == [i \in FanoutIdx |-> IF i <= n - 1 THEN "inflight" ELSE "none"]

\* The diff analysis answered: the fan-out is dispatched (or, with a single
\* frame, reassembly starts at once).
DiffOk(r) ==
    /\ ~EffectPending
    /\ UNCHANGED routeVars
    /\ runs[r].kind = "process" /\ runs[r].pc = "diff"
    /\ diffData' = [diffData EXCEPT !.detailedDiff = r]
    /\ LET run == [runs[r] EXCEPT !.allEditedFrames = <<EditedFrame(r, 0)>>]
       IN IF run.n > 1
          THEN /\ runs' = [runs EXCEPT ![r] =
                    [run EXCEPT !.pc = "fanout",
                                !.edits = ParallelPromises(run.n)]]
               /\ UNCHANGED currentStep
          ELSE /\ runs' = [runs EXCEPT ![r] = StartValidation(run)]
               /\ currentStep' = "reassembling"
    /\ UNCHANGED <<isProcessing, error, extractedFrames, editedFrames, progress,
                   editedVideoUrl, onCompleteCalls, extracting>>

DiffFail(r) ==
    /\ ~EffectPending
    /\ UNCHANGED routeVars
    /\ runs[r].kind = "process" /\ runs[r].pc = "diff"
    /\ Catch(r, runs[r], "Diff analysis failed")
    /\ UNCHANGED <<extractedFrames, editedFrames, progress, editedVideoUrl,
                   diffData, onCompleteCalls, extracting>>

\* processFrameWithStreaming: the edit of frame i answered with an image.  If
\* this fulfils Promise.all, the handler goes on to reassembly in the same turn.
EditOk(r, i) ==
    /\ ~EffectPending
    /\ UNCHANGED routeVars
    /\ runs[r].kind = "process" /\ runs[r].edits[i] = "inflight"
    /\ LET run == runs[r]
           done == run.completedFrames + 1
           all == Pushed(run, EditedFrame(r, i))
           run1 == [run EXCEPT !.edits[i] = "ok", !.allEditedFrames = all,
                               !.completedFrames = done,
                               !.fanoutProgress = Append(run.fanoutProgress,
                                                         FanoutProgress(run, done, i))]
       IN /\ editedFrames' = all
          /\ IF run.pc = "fanout" /\ PromiseAll(run1.edits, run1.n) = "fulfilled"
             THEN /\ progress' = Processing(run.n + 2, run, -1)
                  /\ currentStep' = "reassembling"
                  /\ runs' = [runs EXCEPT ![r] = StartValidation(run1)]
             ELSE /\ progress' = FanoutProgress(run, done, i)
                  /\ currentStep' = currentStep
                  /\ runs' = [runs EXCEPT ![r] = run1]
    /\ UNCHANGED <<isProcessing, error, extractedFrames, editedVideoUrl,
                   diffData, onCompleteCalls, extracting>>

\* The edit of frame i failed.  If this settles Promise.all, the handler's
\* catch (rejected) or its reassembly phase (fulfilled) runs in the same turn.
EditFail(r, i) ==
    /\ ~EffectPending
    /\ UNCHANGED routeVars
    /\ runs[r].kind = "process" /\ runs[r].edits[i] = "inflight"
    /\ LET run1 == [runs[r] EXCEPT !.edits[i] = "fail"]
           settled == IF runs[r].pc = "fanout" THEN PromiseAll(run1.edits, run1.n)
                      ELSE "pending"
       IN \/ /\ settled = "rejected"
             /\ Catch(r, run1, "Frame processing failed")
             /\ UNCHANGED progress
          \/ /\ settled = "fulfilled"
             /\ progress' = Processing(run1.n + 2, run1, -1)
             /\ currentStep' = "reassembling"
             /\ runs' = [runs EXCEPT ![r] = StartValidation(run1)]
             /\ UNCHANGED <<error, isProcessing>>
          \/ /\ settled = "pending"
             /\ runs' = [runs EXCEPT ![r] = run1]
             /\ UNCHANGED <<error, currentStep, isProcessing, progress>>
    /\ UNCHANGED <<extractedFrames, editedFrames, editedVideoUrl,
                   diffData, onCompleteCalls, extracting>>

\* One probe answered (valid: response.ok; invalid: not ok, or the fetch threw
\* and the probe's catch returned false).  When the last probe settles,
\* Promise.all resolves, an invalid URL only logs a warning, and attempt 1 is
\* issued.
ProbeDone(r, result) ==
    /\ ~EffectPending
    /\ UNCHANGED routeVars
    /\ runs[r].kind = "process" /\ runs[r].pc = "validate"
    /\ runs[r].probesPending > 0
    /\ LET run == [runs[r] EXCEPT !.probesPending = runs[r].probesPending - 1,
                                  !.allUrlsValid = Every(runs[r].allUrlsValid, result)]
       IN IF run.probesPending > 0
          THEN runs' = [runs EXCEPT ![r] = run]
          ELSE runs' = [runs EXCEPT ![r] =
                           CallReassemble([run EXCEPT !.reassemblyAttempt = 1])]
    /\ UNCHANGED <<currentStep, isProcessing, error, extractedFrames, editedFrames,
                   progress, editedVideoUrl, diffData, onCompleteCalls, extracting>>

ReassembleOk(r) ==
    /\ ~EffectPending
    /\ UNCHANGED routeVars
    /\ runs[r].kind = "process" /\ runs[r].pc = "encode"
    /\ "ok" \in RouteOutcomes(RequestBody(runs[r].request))
    /\ LET video == StagedFiles(RequestBody(runs[r].request))
       IN /\ editedVideoUrl' = video
          /\ onCompleteCalls' = Append(onCompleteCalls, video)
    /\ currentStep' = "complete"
    /\ isProcessing' = FALSE
    /\ runs' = [runs EXCEPT ![r] = [Settle(runs[r], "ok") EXCEPT !.pc = "done"]]
    /\ UNCHANGED <<error, extractedFrames, editedFrames, progress, diffData, extracting>>

ReassembleFail(r) ==
    /\ ~EffectPending
    /\ UNCHANGED routeVars
    /\ runs[r].kind = "process" /\ runs[r].pc = "encode"
    /\ "fail" \in RouteOutcomes(RequestBody(runs[r].request))
    /\ LET run == Settle(runs[r], "fail")
       IN IF IsLastAttempt(run.reassemblyAttempt)
          THEN /\ progress' = Processing(run.n + 2, run, -1)
               /\ currentStep' = FallbackStep
               /\ isProcessing' = FALSE
               /\ runs' = [runs EXCEPT ![r] = [run EXCEPT !.pc = "done"]]
          ELSE /\ runs' = [runs EXCEPT ![r] =
                              [run EXCEPT !.pc = "backoff",
                                          !.reassemblyAttempt = run.reassemblyAttempt + 1,
                                          !.waits = run.waits + 1]]
               /\ UNCHANGED <<progress, currentStep, isProcessing>>
    /\ UNCHANGED <<error, extractedFrames, editedFrames, editedVideoUrl, diffData,
                   onCompleteCalls, extracting>>

\* The setTimeout of the retry loop fired: the loop condition is tested again.
\* Leaving the loop without a video makes editedVideo.size throw.
BackoffElapsed(r) ==
    /\ ~EffectPending
    /\ UNCHANGED routeVars
    /\ runs[r].kind = "process" /\ runs[r].pc = "backoff"
    /\ LET run == [runs[r] EXCEPT !.waitsElapsed = runs[r].waitsElapsed + 1]
       IN IF WhileCond(run.reassemblyAttempt)
          THEN /\ runs' = [runs EXCEPT ![r] = CallReassemble(run)]
               /\ UNCHANGED <<error, currentStep, isProcessing>>
          ELSE Catch(r, run, "Cannot read properties of undefined")
    /\ UNCHANGED <<extractedFrames, editedFrames, progress, editedVideoUrl,
                   diffData, onCompleteCalls, extracting>>

\* --------------------------------------------------- handleManualAssemble
\* "Assemble Video Now" button of the editing step; cap bounds the number of
\* handler invocations.
ManualAssembleWithin(cap) ==
    /\ ~EffectPending
    /\ UNCHANGED routeVars
    /\ ManualOffered
    /\ FreeRunWithin(cap) # 0
    /\ currentStep' = "reassembling"
    /\ isProcessing' = TRUE
    /\ runs' = [runs EXCEPT ![FreeRunWithin(cap)] =
                   CallReassemble([NoRun EXCEPT !.kind = "manual", !.n = extractedFrames,
                        !.request = EditedFramesForReassembly(editedFrames)])]
    /\ UNCHANGED <<error, extractedFrames, editedFrames, progress, editedVideoUrl,
                   diffData, onCompleteCalls, extracting>>

ManualAssemble == ManualAssembleWithin(MaxRuns)

ManualOk(r) ==
    /\ ~EffectPending
    /\ UNCHANGED routeVars
    /\ runs[r].kind = "manual" /\ runs[r].pc = "encode"
    /\ "ok" \in RouteOutcomes(RequestBody(runs[r].request))
    /\ editedVideoUrl' = StagedFiles(RequestBody(runs[r].request))
    /\ currentStep' = "complete"
    /\ progress' = [current |-> runs[r].n + 3, total |-> runs[r].n + 3,
                    currentFrame |-> -1, status |-> "complete"]
    /\ isProcessing' = FALSE
    /\ runs' = [runs EXCEPT ![r] = [Settle(runs[r], "ok") EXCEPT !.pc = "done"]]
    /\ UNCHANGED <<error, extractedFrames, editedFrames, diffData, onCompleteCalls,
                   extracting>>

\* Variant: a failed manual assembly is handled like a restart: the edited
\* frames are cleared and the session returns to the frame preview.
ManualFailResets(r) ==
    /\ ~EffectPending
    /\ UNCHANGED routeVars
    /\ runs[r].kind = "manual" /\ runs[r].pc = "encode"
    /\ "fail" \in RouteOutcomes(RequestBody(runs[r].request))
    /\ error' = "Manual assembly failed"
    /\ currentStep' = "preview-frames"
    /\ editedFrames' = <<>>
    /\ isProcessing' = FALSE
    /\ runs' = [runs EXCEPT ![r] = [Settle(runs[r], "fail") EXCEPT !.pc = "done"]]
    /\ UNCHANGED <<extractedFrames, progress, editedVideoUrl, diffData,
                   onCompleteCalls, extracting>>

ManualFail(r) ==
    /\ ~EffectPending
    /\ UNCHANGED routeVars
    /\ runs[r].kind = "manual" /\ runs[r].pc = "encode"
    /\ "fail" \in RouteOutcomes(RequestBody(runs[r].request))
    /\ error' = "Manual assembly failed"
    /\ currentStep' = "editing"
    /\ isProcessing' = FALSE
    /\ runs' = [runs EXCEPT ![r] = [Settle(runs[r], "fail") EXCEPT !.pc = "done"]]
    /\ UNCHANGED <<extractedFrames, editedFrames, progress, editedVideoUrl, diffData,
                   onCompleteCalls, extracting>>

\* ------------------------------------------------------------- navigation
\* Where the rendered controls let the user go: the step indicators are
\* always rendered; the buttons depend on the step shown.
CanGoTo(step) ==
    \/ step = "setup"
    \/ step = "preview-frames"
         /\ \/ extractedFrames > 0
            \/ currentStep = "editing" /\ ~isProcessing
            \/ currentStep = "complete" /\ editedVideoUrl # NullVideo
    \/ step = "editing" /\ extractedFrames > 0
    \/ step = "complete" /\ editedVideoUrl # NullVideo

\* Variant: every navigation clears what navigating to setup clears.
GoToStepClearsAll(step) ==
    /\ ~EffectPending
    /\ UNCHANGED routeVars
    /\ CanGoTo(step)
    /\ currentStep' = step
    /\ error' = "null"
    /\ isProcessing' = FALSE
    /\ extractedFrames' = 0
    /\ editedFrames' = <<>>
    /\ editedVideoUrl' = NullVideo
    /\ diffData' = NoDiff
    /\ UNCHANGED <<progress, onCompleteCalls, extracting, runs>>

GoToStep(step) ==
    /\ ~EffectPending
    /\ UNCHANGED routeVars
    /\ CanGoTo(step)
    /\ currentStep' = step
    /\ error' = "null"
    /\ isProcessing' = FALSE
    /\ extractedFrames' = IF step = "setup" THEN 0 ELSE extractedFrames
    /\ editedFrames' = IF step \in {"setup", "preview-frames"} THEN <<>> ELSE editedFrames
    /\ editedVideoUrl' = IF step \in {"setup", "preview-frames", "editing"}
                         THEN NullVideo ELSE editedVideoUrl
    /\ diffData' = IF step \in {"setup", "preview-frames"} THEN NoDiff ELSE diffData
    /\ UNCHANGED <<progress, onCompleteCalls, extracting, runs>>

\* "Edit New Video" button of the complete step.
Reset ==
    /\ ~EffectPending
    /\ UNCHANGED routeVars
    /\ currentStep = "complete" /\ editedVideoUrl # NullVideo
    /\ currentStep' = "setup"
    /\ extractedFrames' = 0
    /\ editedFrames' = <<>>
    /\ editedVideoUrl' = NullVideo
    /\ diffData' = NoDiff
    /\ error' = "null"
    /\ progress' = NullProgress
    /\ UNCHANGED <<isProcessing, onCompleteCalls, extracting, runs>>

\* ------------------------------------------------------ prompt composition
\* A string is a sequence of pieces; a piece is the characters from..to-1 of
\* a source text (the user's prompt, the diff specification or a literal).
Piece(src, from, to) == [src |-> src, from |-> from, to |-> to]
Text(src, len) == <<Piece(src, 0, len)>>

RECURSIVE Length(_)
Length(str) == IF str = <<>> THEN 0
               ELSE (Head(str).to - Head(str).from) + Length(Tail(str))

Clamp(x, len) == IF x < 0 THEN 0 ELSE IF x > len THEN len ELSE x

\* String.prototype.substring on a one-piece string: both arguments are
\* clamped to 0..length and swapped when start > end.
Substring(str, start, end) ==
    LET len == Length(str)
        a == Clamp(start, len)
        b == Clamp(end, len)
        lo == IF a < b THEN a ELSE b
        hi == IF a < b THEN b ELSE a
    IN <<Piece(str[1].src, str[1].from + lo, str[1].from + hi)>>

\* processFrameWithDiff: the diff is cut to 1500 - originalPrompt.length
\* characters and marked; the prompt is inserted as it is.
TruncatedDiff(originalPrompt, detailedDiffSpec) ==
    LET maxDiffLength == DiffBudget - Length(originalPrompt)
    IN IF Length(detailedDiffSpec) > maxDiffLength
       THEN Substring(detailedDiffSpec, 0, maxDiffLength) \o Text("marker", MarkerLen)
       ELSE detailedDiffSpec

DiffBasedPrompt(originalPrompt, detailedDiffSpec) ==
    Text("head", HeadLen) \o originalPrompt \o Text("details", DetailsLen)
        \o TruncatedDiff(originalPrompt, detailedDiffSpec) \o Text("tail", TailLen)

\* The edit-frame route's checks on the prompt: 400 when it is missing or
\* longer than the ceiling, otherwise the request goes to the edit service.
EditRouteStatus(prompt) ==
    IF Length(prompt) = 0 THEN 400
    ELSE IF Length(prompt) > PromptCeiling THEN 400
    ELSE 200

NearBy(x) == {x - 1, x, x + 1}

\* The prompt lengths tried: the user's prompt is not empty.
PromptLens ==
    {n \in 1..MaxPromptLen :
        \/ n = 1
        \/ n % 100 = 0
        \/ n \in NearBy(DiffBudget)
        \/ n \in NearBy(PromptCeiling - HeadLen - DetailsLen - TailLen - MarkerLen)}

\* The diff specification lengths tried: the analyzer returns at most MaxDiffSpec.
DiffLens ==
    {n \in 0..MaxDiffSpec :
        \/ n % 500 = 0
        \/ n \in NearBy(1)
        \/ n \in NearBy(MarkerLen)
        \/ n \in NearBy(DiffBudget - 100)}

\* processFrameWithDiff composes the request for one remaining frame.
ComposeRequest(p, d) ==
    /\ composed = NoRequest \/ composed.status # 0
    /\ composed' = [originalPrompt |-> p, detailedDiffSpec |-> d,
                    prompt |-> DiffBasedPrompt(Text("prompt", p), Text("diff", d)),
                    status |-> 0]
    /\ UNCHANGED componentVars
    /\ UNCHANGED <<extraction, analysis, reassembly, editCalls, chain, editor, extractionPromises>>

\* The request reaches the edit-frame route.
SubmitRequest ==
    /\ composed # NoRequest /\ composed.status = 0
    /\ composed' = [composed EXCEPT !.status = EditRouteStatus(composed.prompt)]
    /\ UNCHANGED componentVars
    /\ UNCHANGED <<extraction, analysis, reassembly, editCalls, chain, editor, extractionPromises>>

PromptStep ==
    \/ \E p \in PromptLens, d \in DiffLens : ComposeRequest(p, d)
    \/ SubmitRequest

\* ------------------------------------------------- the extract-frames route
\* A JavaScript number that is an integer or NaN.
Num(n) == [nan |-> FALSE, val |-> n]
NaN == [nan |-> TRUE, val |-> 0]

Max(a, b) == IF a > b THEN a ELSE b

\* eval(videoStream.r_frame_rate) of "num/den": NaN for "0/0", else the quotient,
\* kept as the pair.  den = 0 with num # 0 is not a rate ffprobe reports.
FrameRates == {<<30, 1>>, <<25, 1>>, <<2997, 100>>, <<15, 2>>, <<0, 0>>}

RateIsNaN(fps) == fps[1] = 0 /\ fps[2] = 0

\* Math.floor(duration * fps); the duration (seconds in the route) is given
\* in milliseconds here.
TotalFrames(durationMs, fps) ==
    IF RateIsNaN(fps) THEN NaN
    ELSE Num((durationMs * fps[1]) \div (1000 * fps[2]))

\* Variant: Math.max where the route takes the minimum.
FramesToExtractMax(totalFrames, frameInterval, maxFrames) ==
    IF totalFrames.nan THEN NaN
    ELSE Num(Max(totalFrames.val \div frameInterval, maxFrames))

\* Math.min(Math.floor(totalFrames / frameInterval), maxFrames); NaN is
\* contagious in both.
FramesToExtract(totalFrames, frameInterval, maxFrames) ==
    IF totalFrames.nan THEN NaN
    ELSE Num(Min(totalFrames.val \div frameInterval, maxFrames))

\* The number of turns of "for (let i = 0; i < framesToExtract; i++)":
\* i < NaN is false.
LoopTurns(framesToExtract) ==
    IF framesToExtract.nan THEN 0 ELSE Max(0, framesToExtract.val)

\* frameNumber / fps, as the fraction frameNumber * den / num.
Timestamp(frameNumber, fps) == [num |-> frameNumber * fps[2], den |-> fps[1]]

\* a < b for two fractions with positive denominators.
Less(a, b) == a.num * b.den < b.num * a.den

\* The uploaded files tried: one without a video stream, and clips of every
\* length and rate.
Durations == {d \in 0..MaxDurationMs : d % 500 = 0 \/ d = MaxDurationMs}

Files ==
    {[hasVideoStream |-> FALSE, durationMs |-> 0, fps |-> <<0, 0>>]}
    \cup {[hasVideoStream |-> TRUE, durationMs |-> d, fps |-> f] :
             d \in Durations, f \in FrameRates}

Intervals == {n \in 1..MaxInterval : n <= 3 \/ n = MaxInterval}
Requested == {n \in 1..MaxRequested : n <= 3 \/ n = MaxRequested}

\* POST of the extract-frames route: 500 when the file has no video stream or
\* the decoder fails; otherwise the frames in loop order.  The parallel variant
\* of the route builds the same list (Promise.all keeps the array order).
\* fs/promises unlink: a file is removed when it is there and the call rejects
\* (ENOENT) when it is gone; on a directory the call always rejects.
Unlink(kind) ==
    IF kind = "file" THEN "removed"
    ELSE IF kind = "missing" THEN "rejected"
    ELSE "rejected"

\* The staged video at the time the success path cleans up.
StagedVideoKinds == {"file", "missing"}

\* The route: probe, frame loop, cleanup, answer.  The success path awaits
\* unlink(tempVideoPath) with no catch of its own, so a rejection reaches the
\* route's catch block.
ExtractionRoute(file, interval, maxFrames, decoderOk, stagedVideo) ==
    IF ~file.hasVideoStream \/ ~decoderOk
    THEN [status |-> 500, frames |-> <<>>]
    ELSE IF Unlink(stagedVideo) = "rejected"
    THEN [status |-> 500, frames |-> <<>>]
    ELSE LET totalFrames == TotalFrames(file.durationMs, file.fps)
             frameInterval == Max(1, interval)
             framesToExtract == FramesToExtract(totalFrames, frameInterval, maxFrames)
         IN [status |-> 200,
             frames |-> [k \in 1..LoopTurns(framesToExtract) |->
                           [index |-> k - 1,
                            timestamp |-> Timestamp((k - 1) * frameInterval, file.fps)]]]

\* A request reaches the route.
ExtractionRequest(file, interval, maxFrames) ==
    /\ extraction = NoExtraction
    /\ extraction' = [status |-> 1, file |-> file, interval |-> interval,
                      maxFrames |-> maxFrames, frames |-> <<>>,
                      decoderOk |-> TRUE, stagedVideo |-> "file", unlimited |-> FALSE]
    /\ UNCHANGED componentVars
    /\ UNCHANGED <<composed, analysis, reassembly, editCalls, chain, editor, extractionPromises>>

\* The "Max Frames to Process" state: null (empty field, "Unlimited") or a number.
Unlimited == [set |-> FALSE, val |-> 0]
Limit(n) == [set |-> TRUE, val |-> n]
UiMaxFrames == {Unlimited} \cup {Limit(n) : n \in Requested}

\* handleExtractFrames: maxFrames || undefined (null and 0 become undefined).
OrUndefined(option) == IF option.set /\ option.val # 0 THEN option ELSE Unlimited

\* extractFrames: const { interval = 30, maxFrames = 10 } = options.
OptionOr(option, default) == IF option.set THEN option.val ELSE default

\* formData.append(name, n.toString()) and, in the route,
\* Number(formData.get(name) || default): the decimal text of a number is
\* never empty, so the default of the route is not taken.
FormField(n) == [text |-> n]
NumberOfField(field, default) == IF field = <<>> THEN default ELSE field.text

\* The component asks for extraction: handleExtractFrames, extractFrames and
\* the route's reading of the form.
ClientExtraction(file, frameInterval, uiMaxFrames) ==
    /\ extraction = NoExtraction
    /\ LET interval == OptionOr(Limit(frameInterval), DefaultInterval)
           maxFrames == OptionOr(OrUndefined(uiMaxFrames), DefaultMaxFrames)
       IN extraction' = [status |-> 1, file |-> file,
                         interval |-> NumberOfField(FormField(interval), DefaultInterval),
                         maxFrames |-> NumberOfField(FormField(maxFrames), DefaultMaxFrames),
                         frames |-> <<>>, decoderOk |-> TRUE, stagedVideo |-> "file",
                         unlimited |-> ~uiMaxFrames.set]
    /\ UNCHANGED componentVars
    /\ UNCHANGED <<composed, analysis, reassembly, editCalls, chain, editor, extractionPromises>>

\* The route answers.
ExtractionResponse(decoderOk, stagedVideo) ==
    /\ extraction.status = 1
    /\ LET response == ExtractionRoute(extraction.file, extraction.interval,
                                       extraction.maxFrames, decoderOk, stagedVideo)
       IN extraction' = [extraction EXCEPT !.status = response.status,
                                           !.frames = response.frames,
                                           !.decoderOk = decoderOk,
                                           !.stagedVideo = stagedVideo]
    /\ UNCHANGED componentVars
    /\ UNCHANGED <<composed, analysis, reassembly, editCalls, chain, editor, extractionPromises>>

\* The parallel route: const framesToExtract = requestedFrames; above 50 the
\* route logs a warning.
ParallelFramesToExtract(requestedFrames) == requestedFrames

\* POST of the parallel extraction route: the same probe, plan and cleanup;
\* the frames are extracted concurrently and kept in array order.
ParallelExtractionRoute(file, interval, maxFrames, decoderOk, stagedVideo) ==
    IF ~file.hasVideoStream \/ ~decoderOk
    THEN [status |-> 500, frames |-> <<>>]
    ELSE IF Unlink(stagedVideo) = "rejected"
    THEN [status |-> 500, frames |-> <<>>]
    ELSE LET totalFrames == TotalFrames(file.durationMs, file.fps)
             frameInterval == Max(1, interval)
             requestedFrames == FramesToExtract(totalFrames, frameInterval, maxFrames)
             framesToExtract == ParallelFramesToExtract(requestedFrames)
         IN [status |-> 200,
             frames |-> [k \in 1..LoopTurns(framesToExtract) |->
                           [index |-> k - 1,
                            timestamp |-> Timestamp((k - 1) * frameInterval, file.fps)]]]

\* The maxFrames values sent to the parallel route: around its announced limit.
ParallelRequested == {1, SafetyLimit, SafetyLimit + 1, MaxParallelRequested}

\* The parallel route answers.
ParallelExtractionResponse(decoderOk, stagedVideo) ==
    /\ extraction.status = 1
    /\ LET response == ParallelExtractionRoute(extraction.file, extraction.interval,
                                               extraction.maxFrames, decoderOk, stagedVideo)
       IN extraction' = [extraction EXCEPT !.status = response.status,
                                           !.frames = response.frames,
                                           !.decoderOk = decoderOk,
                                           !.stagedVideo = stagedVideo]
    /\ UNCHANGED componentVars
    /\ UNCHANGED <<composed, analysis, reassembly, editCalls, chain, editor, extractionPromises>>

ParallelExtractionStep ==
    \/ \E file \in Files, interval \in Intervals, maxFrames \in ParallelRequested :
          ExtractionRequest(file, interval, maxFrames)
    \/ \E decoderOk \in BOOLEAN, stagedVideo \in StagedVideoKinds :
          ParallelExtractionResponse(decoderOk, stagedVideo)

ExtractionStep ==
    \/ \E file \in Files, interval \in Intervals, maxFrames \in Requested :
          ExtractionRequest(file, interval, maxFrames)
    \/ \E file \in Files, frameInterval \in Intervals, uiMaxFrames \in UiMaxFrames :
          ClientExtraction(file, frameInterval, uiMaxFrames)
    \/ \E decoderOk \in BOOLEAN, stagedVideo \in StagedVideoKinds :
          ExtractionResponse(decoderOk, stagedVideo)

\* -------------------------------------------------- the analyze-diff route
\* Variant: the cut is made at the limit, before the ellipsis is added.
EnforceLimitLate(detailedDiff) ==
    IF Length(detailedDiff) > MaxDiffSpec
    THEN Substring(detailedDiff, 0, MaxDiffSpec) \o Text("ellipsis", EllipsisLen)
    ELSE detailedDiff

\* "Enforce 5000 character limit": a longer response is cut to its first 4997
\* characters followed by "...".
EnforceLimit(detailedDiff) ==
    IF Length(detailedDiff) > MaxDiffSpec
    THEN Substring(detailedDiff, 0, DiffKept) \o Text("ellipsis", EllipsisLen)
    ELSE detailedDiff

\* The response lengths tried.
ResponseLens ==
    {n \in 0..MaxResponseLen :
        \/ n % 100 = 0
        \/ n \in NearBy(DiffKept)
        \/ n \in NearBy(MaxDiffSpec)
        \/ n \in NearBy(EllipsisLen)}

\* POST of the analyze-diff route, from the analyzer's response on: the route
\* answers 200 with the limited detailedDiff.
AnalyzeDiff(n) ==
    /\ analysis = NoAnalysis
    /\ analysis' = [status |-> 200, response |-> n,
                    detailedDiff |-> EnforceLimit(Text("response", n))]
    /\ UNCHANGED componentVars
    /\ UNCHANGED <<composed, extraction, reassembly, editCalls, chain, editor, extractionPromises>>

\* The analyzer call or the download of the edited frame threw: 500.
AnalyzeDiffFail ==
    /\ analysis = NoAnalysis
    /\ analysis' = [status |-> 500, response |-> 0, detailedDiff |-> <<>>]
    /\ UNCHANGED componentVars
    /\ UNCHANGED <<composed, extraction, reassembly, editCalls, chain, editor, extractionPromises>>

AnalyzeStep ==
    \/ \E n \in ResponseLens : AnalyzeDiff(n)
    \/ AnalyzeDiffFail

\* ----------------------------------------------- the reassemble-video route
\* The frames tried ({base64?, url?}, 0 for a missing or empty field): a frame
\* with a url, one with base64 data, one with neither.
FrameData ==
    {[base64 |-> 0, url |-> u] : u \in 0..MaxRefs} \cup {[base64 |-> 1, url |-> 0]}

\* if (frame.base64) ... else if (frame.url) ... else throw: where the image
\* of a frame comes from.
FrameSource(frame) ==
    IF frame.base64 # 0 THEN "base64" ELSE IF frame.url # 0 THEN "url" ELSE "invalid"

\* The image written for a frame: the decoded data or the fetched body.
FrameImage(frame) ==
    IF FrameSource(frame) = "base64" THEN -frame.base64 ELSE frame.url

\* The frame lists tried: every list of at most MaxStaged frames.
RECURSIVE ListsOf(_)
ListsOf(n) ==
    IF n = 0 THEN {<<>>}
    ELSE LET shorter == ListsOf(n - 1)
         IN shorter \cup {Append(l, f) : l \in {x \in shorter : Len(x) = n - 1},
                                          f \in FrameData}

FrameLists == ListsOf(MaxStaged)

\* The values of the body's frames field: an array, a string (truthy, with a
\* length, not an array), or no field at all.
FramesFields ==
    {[kind |-> "array", items |-> l] : l \in FrameLists}
        \cup {[kind |-> "string", items |-> <<>>], [kind |-> "undefined", items |-> <<>>]}

\* Variant: one directory name for every request.
TempDirShared(c) == 1

\* tempDir = join(tmpdir(), `video_reassemble_${randomUUID()}`): a name no
\* other request has.
TempDirOf(c) == c

\* The frame files in the request's directory, whoever wrote them, and what
\* the file at position k holds.
DirEntries(c) ==
    {k \in StagedIdx :
        \E d \in CallIds : TempDirOf(d) = TempDirOf(c) /\ k \in reassembly[d].files}

ContentAt(c, k) ==
    IF k \in reassembly[c].files THEN FrameImage(reassembly[c].frames[k])
    ELSE LET d == CHOOSE d \in CallIds :
                     TempDirOf(d) = TempDirOf(c) /\ k \in reassembly[d].files
         IN FrameImage(reassembly[d].frames[k])

\* ffmpeg -pattern_type sequence -i frame_%04d.png: the files from
\* frame_0000.png on, in order, up to the first missing number.
Encoded(c) ==
    LET runLength == CHOOSE m \in 0..MaxStaged :
                        /\ 1..m \subseteq DirEntries(c)
                        /\ (m + 1) \notin DirEntries(c)
    IN [k \in 1..runLength |-> ContentAt(c, k)]

\* await unlink(tempDir) inside the cleanup try: a rejection is logged.
TempDirAfterCleanup == Unlink("directory") # "removed"

\* The cleanup of the success path: every frame file and the video are
\* unlinked (a rejection is logged), then the directory.
CleanupAfterEncode(call) ==
    [call EXCEPT !.files = {}, !.tempVideo = FALSE, !.tempDir = TempDirAfterCleanup]

\* The cleanup of the catch block: the video path if set, then every entry
\* readdirSync lists now (a rejection is logged), then the directory.
CleanupOnError(call) ==
    [call EXCEPT !.files = {}, !.tempVideo = FALSE,
                 !.tempDir = call.tempDir /\ TempDirAfterCleanup]

\* The route receives a request: 400 unless frames is a non-empty array;
\* otherwise the directory is made and processFrame is started for every
\* frame.  processFrame of a frame with neither base64 nor url throws before
\* its first await, so Promise.all is rejected before any other call gets
\* further: the catch block cleans up and answers 500.
ReassembleStart(c, frames) ==
    /\ reassembly[c].pc = "idle"
    /\ \A b \in CallIds : b < c => reassembly[b].pc = "returned"
    /\ IF frames.kind = "undefined" \/ frames.kind # "array" \/ Len(frames.items) = 0
       THEN reassembly' = [reassembly EXCEPT ![c] =
                [NoCall EXCEPT !.pc = "returned", !.input = frames.kind, !.status = 400]]
       ELSE LET items == frames.items
                call == [NoCall EXCEPT
                            !.pc = "staging", !.input = frames.kind,
                            !.frames = items, !.tempDir = TRUE,
                            !.fetch = [k \in StagedIdx |->
                                         IF k > Len(items) THEN "none"
                                         ELSE IF FrameSource(items[k]) = "invalid"
                                         THEN "failed"
                                         ELSE "pending"]]
            IN IF \E k \in 1..Len(items) : FrameSource(items[k]) = "invalid"
               THEN reassembly' = [reassembly EXCEPT ![c] =
                        [CleanupOnError(call) EXCEPT !.pc = "returned", !.status = 500]]
               ELSE reassembly' = [reassembly EXCEPT ![c] = call]
    /\ UNCHANGED componentVars
    /\ UNCHANGED <<composed, extraction, analysis, editCalls, chain, editor, extractionPromises>>

\* processFrame of position k fetched its image and wrote frame_<k>.png.  When
\* that fulfils Promise.all the encoder is started.
FrameStaged(c, k) ==
    /\ reassembly[c].fetch[k] = "pending"
    /\ LET call == [reassembly[c] EXCEPT !.fetch[k] = "written",
                                        !.files = reassembly[c].files \cup {k}]
       IN IF call.pc = "staging"
             /\ \A j \in 1..Len(call.frames) : call.fetch[j] = "written"
          THEN reassembly' = [reassembly EXCEPT ![c] =
                   [call EXCEPT !.pc = "encoding", !.encoderInvoked = TRUE]]
          ELSE reassembly' = [reassembly EXCEPT ![c] = call]
    /\ UNCHANGED componentVars
    /\ UNCHANGED <<composed, extraction, analysis, editCalls, chain, editor, extractionPromises>>

\* Variant: a failed fetch is skipped and the rest of the list is encoded.
FrameFetchSkipped(c, k) ==
    /\ reassembly[c].fetch[k] = "pending"
    /\ FrameSource(reassembly[c].frames[k]) = "url"
    /\ LET call == [reassembly[c] EXCEPT !.fetch[k] = "failed"]
       IN IF call.pc = "staging"
             /\ \A j \in 1..Len(call.frames) : call.fetch[j] # "pending"
          THEN reassembly' = [reassembly EXCEPT ![c] =
                   [call EXCEPT !.pc = "encoding", !.encoderInvoked = TRUE]]
          ELSE reassembly' = [reassembly EXCEPT ![c] = call]
    /\ UNCHANGED componentVars
    /\ UNCHANGED <<composed, extraction, analysis, editCalls, chain, editor, extractionPromises>>

\* The fetch of position k answered not-ok: processFrame throws.  The first
\* rejection rejects Promise.all: the catch block cleans up and answers 500
\* while the other processFrame calls go on.
FrameFetchFailed(c, k) ==
    /\ reassembly[c].fetch[k] = "pending"
    /\ FrameSource(reassembly[c].frames[k]) = "url"
    /\ LET call == [reassembly[c] EXCEPT !.fetch[k] = "failed"]
       IN IF call.pc = "staging"
          THEN reassembly' = [reassembly EXCEPT ![c] =
                   [CleanupOnError(call) EXCEPT !.pc = "returned", !.status = 500]]
          ELSE reassembly' = [reassembly EXCEPT ![c] = call]
    /\ UNCHANGED componentVars
    /\ UNCHANGED <<composed, extraction, analysis, editCalls, chain, editor, extractionPromises>>

\* The encoder wrote the video from frame_0000.png on; the route reads it,
\* cleans up (gone: the frame files something else removed meanwhile) and
\* answers 200.
EncodeOk(c, gone) ==
    /\ reassembly[c].pc = "encoding"
    /\ gone \subseteq reassembly[c].files
    /\ LET call == [reassembly[c] EXCEPT !.tempVideo = TRUE,
                                        !.files = reassembly[c].files \ gone,
                                        !.gone = gone,
                                        !.video = Encoded(c)]
       IN reassembly' = [reassembly EXCEPT ![c] =
              [CleanupAfterEncode(call) EXCEPT !.pc = "returned", !.status = 200]]
    /\ UNCHANGED componentVars
    /\ UNCHANGED <<composed, extraction, analysis, editCalls, chain, editor, extractionPromises>>

\* The encoder failed: the catch block cleans up and answers 500.
EncodeFailed(c) ==
    /\ reassembly[c].pc = "encoding"
    /\ reassembly' = [reassembly EXCEPT ![c] =
           [CleanupOnError(reassembly[c]) EXCEPT !.pc = "returned", !.status = 500]]
    /\ UNCHANGED componentVars
    /\ UNCHANGED <<composed, extraction, analysis, editCalls, chain, editor, extractionPromises>>

ReassemblyStep ==
    \E c \in CallIds :
        \/ \E frames \in FramesFields : ReassembleStart(c, frames)
        \/ \E k \in StagedIdx : FrameStaged(c, k) \/ FrameFetchFailed(c, k)
        \/ \E gone \in SUBSET StagedIdx : EncodeOk(c, gone)
        \/ EncodeFailed(c)

\* ------------------------------------------------------- the edit-frame route
\* An image reference: the leading segments of its text and its length.
ImageRef(head, len) == [head |-> head, length |-> len]

\* The references tried: data:image/ URIs of the longest accepted length and
\* one character more, an https URL, a text that starts with http and is no
\* URL, and an ftp URL.
ImageRefs ==
    {ImageRef(<<"data:", "image/">>, MaxDataUriLen),
     ImageRef(<<"data:", "image/">>, MaxDataUriLen + 1),
     ImageRef(<<"http", "s://">>, 60),
     ImageRef(<<"http", "foo">>, 7),
     ImageRef(<<"ftp://">>, 60)}

\* String.prototype.startsWith on the leading segments.
StartsWith(ref, prefix) ==
    /\ Len(ref.head) >= Len(prefix)
    /\ SubSeq(ref.head, 1, Len(prefix)) = prefix

\* The image lists tried: imageUrls with at most MaxImages references.
RECURSIVE ImageListsOf(_)
ImageListsOf(n) ==
    IF n = 0 THEN {<<>>}
    ELSE LET shorter == ImageListsOf(n - 1)
         IN shorter \cup {Append(l, ref) : l \in {x \in shorter : Len(x) = n - 1},
                                           ref \in ImageRefs}

ImageLists == ImageListsOf(MaxImages)

\* The prompts tried: none, the longest accepted one and one character more.
EditPrompts == {<<>>, Text("prompt", PromptCeiling), Text("prompt", PromptCeiling + 1)}

\* What the edit service does with a request it gets.
FalOutcomes == {"ok", "invalid", "unavailable"}

\* The route with every image accepted.
RejectedImageNever(ref) == FALSE

\* The loop over imageUrls answers 400 at the first reference that starts
\* with neither data:image/ nor http, or that is a data: URI longer than
\* 10 MB.
RejectedImage(ref) ==
    \/ ~StartsWith(ref, <<"data:", "image/">>) /\ ~StartsWith(ref, <<"http">>)
    \/ StartsWith(ref, <<"data:">>) /\ ref.length > MaxDataUriLen

\* The route: the key check, the checks on the body, then the edit service.
EditFrameRoute(keyConfigured, prompt, imageUrls, outcome) ==
    IF ~keyConfigured THEN [status |-> 500, called |-> FALSE]
    ELSE IF Length(prompt) = 0 \/ Len(imageUrls) = 0 THEN [status |-> 400, called |-> FALSE]
    ELSE IF EditRouteStatus(prompt) = 400 THEN [status |-> 400, called |-> FALSE]
    ELSE IF \E i \in 1..Len(imageUrls) : RejectedImage(imageUrls[i])
    THEN [status |-> 400, called |-> FALSE]
    ELSE [status |-> IF outcome = "ok" THEN 200
                     ELSE IF outcome = "invalid" THEN 422 ELSE 500,
          called |-> TRUE]

\* A request reaches the route.
EditRequest(c, keyConfigured, prompt, imageUrls) ==
    /\ editCalls[c].pc = "idle"
    /\ editCalls' = [editCalls EXCEPT ![c] =
           [NoEditCall EXCEPT !.pc = "received", !.keyConfigured = keyConfigured,
                              !.prompt = prompt, !.imageUrls = imageUrls]]
    /\ UNCHANGED componentVars
    /\ UNCHANGED <<composed, extraction, analysis, reassembly, chain, editor, extractionPromises>>

\* The route answers the request.
EditResponse(c, outcome) ==
    /\ editCalls[c].pc = "received"
    /\ LET call == editCalls[c]
           response == EditFrameRoute(call.keyConfigured, call.prompt,
                                      call.imageUrls, outcome)
       IN /\ outcome = "ok" \/ response.called
          /\ editCalls' = [editCalls EXCEPT ![c] =
                 [call EXCEPT !.pc = "answered", !.status = response.status,
                              !.called = response.called,
                              !.outcome = IF response.called THEN outcome ELSE "none"]]
    /\ UNCHANGED componentVars
    /\ UNCHANGED <<composed, extraction, analysis, reassembly, chain, editor, extractionPromises>>

EditRouteStep ==
    \E c \in EditCallIds :
        \/ \E keyConfigured \in BOOLEAN, prompt \in EditPrompts, imageUrls \in ImageLists :
              EditRequest(c, keyConfigured, prompt, imageUrls)
        \/ \E outcome \in FalOutcomes : EditResponse(c, outcome)

\* ------------------------------------------- the sequential chaining variant
\* frame.base64 of the extracted frame at loop position i, and the image the
\* edit service answered with.
OriginalImage(i) == [frame |-> i, kind |-> "original", version |-> 0]
EditedImage(i, v) == [frame |-> i, kind |-> "edited", version |-> v]

\* Variant: the reference is always the first edited frame.
FirstEditedUrl(processedFrames, i) == processedFrames[1].editedUrl

\* processedFrames[i - 1].editedUrl (the list is 1-based here).
PreviousEditedUrl(processedFrames, i) == processedFrames[i].editedUrl

\* fetch("/api/generate-semantic-prompt") for loop position i.
SemanticRequest(i, processedFrames) ==
    [kind |-> "semantic", frame |-> i, prompt |-> "user",
     images |-> <<OriginalImage(i), PreviousEditedUrl(processedFrames, i)>>]

\* fetch("/api/edit-frame") for loop position i with these imageUrls.
EditFrameRequest(i, imageUrls, prompt) ==
    [kind |-> "edit", frame |-> i, images |-> imageUrls, prompt |-> prompt]

\* The handler starts on n extracted frames: frame 0 is edited with the
\* direct prompt.
ChainStart(n) ==
    /\ chain.pc = "idle"
    /\ chain' = [NoChain EXCEPT !.pc = "edit", !.n = n,
                                !.issued = <<EditFrameRequest(0, <<OriginalImage(0)>>, "direct")>>]
    /\ UNCHANGED componentVars
    /\ UNCHANGED <<composed, extraction, analysis, reassembly, editCalls, editor, extractionPromises>>

\* The merge instruction arrived: the previous edited frame is added as the
\* reference and the edit is requested.
ChainSemanticOk ==
    /\ chain.pc = "semantic"
    /\ chain' = [chain EXCEPT !.pc = "edit",
                   !.issued = Append(chain.issued,
                       EditFrameRequest(chain.i,
                           <<OriginalImage(chain.i),
                             PreviousEditedUrl(chain.processedFrames, chain.i)>>,
                           "semantic"))]
    /\ UNCHANGED componentVars
    /\ UNCHANGED <<composed, extraction, analysis, reassembly, editCalls, editor, extractionPromises>>

\* Variant: a failed merge instruction is thrown to the handler's catch.
ChainSemanticFailThrows ==
    /\ chain.pc = "semantic"
    /\ chain' = [chain EXCEPT !.pc = "failed"]
    /\ UNCHANGED componentVars
    /\ UNCHANGED <<composed, extraction, analysis, reassembly, editCalls, editor, extractionPromises>>

\* The merge instruction failed: the inner catch takes the generic
\* consistency prompt and the edit is requested with the frame alone.
ChainSemanticFail ==
    /\ chain.pc = "semantic"
    /\ chain' = [chain EXCEPT !.pc = "edit",
                   !.issued = Append(chain.issued,
                       EditFrameRequest(chain.i, <<OriginalImage(chain.i)>>, "fallback"))]
    /\ UNCHANGED componentVars
    /\ UNCHANGED <<composed, extraction, analysis, reassembly, editCalls, editor, extractionPromises>>

\* The edit answered with an image: the frame is pushed and the loop goes on
\* to the next frame's merge instruction, or to reassembly after the last.
ChainEditOk(v) ==
    /\ chain.pc = "edit"
    /\ LET processedFrames == Append(chain.processedFrames,
                                     [index |-> chain.i, editedUrl |-> EditedImage(chain.i, v)])
           next == chain.i + 1
       IN IF next < chain.n
          THEN chain' = [chain EXCEPT !.pc = "semantic", !.i = next,
                           !.processedFrames = processedFrames,
                           !.issued = Append(chain.issued,
                                             SemanticRequest(next, processedFrames))]
          ELSE chain' = [chain EXCEPT !.pc = "reassembling", !.i = next,
                           !.processedFrames = processedFrames]
    /\ UNCHANGED componentVars
    /\ UNCHANGED <<composed, extraction, analysis, reassembly, editCalls, editor, extractionPromises>>

\* The edit failed: the throw leaves the loop for the handler's catch.
ChainEditFail ==
    /\ chain.pc = "edit"
    /\ chain' = [chain EXCEPT !.pc = "failed"]
    /\ UNCHANGED componentVars
    /\ UNCHANGED <<composed, extraction, analysis, reassembly, editCalls, editor, extractionPromises>>

ChainStep ==
    \/ \E n \in 1..MaxChain : ChainStart(n)
    \/ ChainSemanticOk
    \/ ChainSemanticFail
    \/ \E v \in 1..MaxVersions : ChainEditOk(v)
    \/ ChainEditFail

\* --------------------------------------------------- GeminiEditor.editFrames
\* The imageUrls of the request for loop position i: the frame, and the
\* previous edited image when there is one and i > 0.
EditorImageUrls(i, previousEditedUrl) ==
    IF previousEditedUrl # NullUrl /\ i > 0
    THEN <<OriginalImage(i), previousEditedUrl>>
    ELSE <<OriginalImage(i)>>

\* The loop turns to position i (or returns after the last frame): the edit
\* request of the frame is sent.
EditorTurn(ed, i) ==
    IF i < ed.n
    THEN [ed EXCEPT !.pc = "edit", !.i = i,
                    !.issued = Append(ed.issued,
                                  EditFrameRequest(i, EditorImageUrls(i, ed.previousEditedUrl),
                                                   "user"))]
    ELSE [ed EXCEPT !.pc = "returned", !.i = i]

\* editFrames is called on n frames.
EditorStart(n) ==
    /\ editor.pc = "idle"
    /\ editor' = EditorTurn([NoEditor EXCEPT !.n = n], 0)
    /\ UNCHANGED componentVars
    /\ UNCHANGED <<composed, extraction, analysis, reassembly, editCalls, chain, extractionPromises>>

\* The edit answered and the image was downloaded: the EditedFrame is pushed
\* and previousEditedUrl updated.
EditorFrameOk(v) ==
    /\ editor.pc = "edit"
    /\ LET editedUrl == EditedImage(editor.i, v)
           ed == [editor EXCEPT
                     !.editedFrames = Append(editor.editedFrames,
                                             [index |-> editor.i, editedUrl |-> editedUrl]),
                     !.previousEditedUrl = editedUrl]
       IN editor' = EditorTurn(ed, editor.i + 1)
    /\ UNCHANGED componentVars
    /\ UNCHANGED <<composed, extraction, analysis, reassembly, editCalls, chain, extractionPromises>>

\* Variant: the failure is thrown to the caller and nothing is pushed.
EditorFrameFailThrows ==
    /\ editor.pc = "edit"
    /\ editor' = [editor EXCEPT !.pc = "rejected"]
    /\ UNCHANGED componentVars
    /\ UNCHANGED <<composed, extraction, analysis, reassembly, editCalls, chain, extractionPromises>>

\* The edit request or the download failed: the catch pushes the original
\* frame as the EditedFrame and the loop goes on.
EditorFrameFail ==
    /\ editor.pc = "edit"
    /\ LET ed == [editor EXCEPT
                     !.editedFrames = Append(editor.editedFrames,
                                             [index |-> editor.i,
                                              editedUrl |-> OriginalImage(editor.i)])]
       IN editor' = EditorTurn(ed, editor.i + 1)
    /\ UNCHANGED componentVars
    /\ UNCHANGED <<composed, extraction, analysis, reassembly, editCalls, chain, extractionPromises>>

EditorStep ==
    \/ \E n \in 1..MaxChain : EditorStart(n)
    \/ \E v \in 1..MaxVersions : EditorFrameOk(v)
    \/ EditorFrameFail

\* -------------------------------- parallel extraction: the decoder calls
\* Variant: the values are collected as the decoder calls complete.
FramesInCompletionOrder(n, values, completed) ==
    [k \in 1..n |-> values[completed[k]]]

\* const frames = await Promise.all(extractionPromises): the value of
\* promise k at place k.
ExtractedFrames(n, values, completed) == [k \in 1..n |-> values[k - 1]]

\* frameInfos.map(async ...): one decoder call per frame, all started at once.
ParallelFramesStart(n) ==
    /\ extractionPromises.pc = "idle"
    /\ extractionPromises' =
          [extractionPromises EXCEPT
              !.pc = "extracting", !.n = n,
              !.promises = [i \in ParallelFrameIdx |->
                              IF i < n THEN "pending" ELSE "none"]]
    /\ UNCHANGED componentVars
    /\ UNCHANGED <<composed, extraction, analysis, reassembly, editCalls, chain, editor>>

\* The decoder call of frame i succeeds: its promise is fulfilled with
\* {index: frameInfo.index, ...}.  Calls still running after the route has
\* answered complete as well.
FrameExtracted(i) ==
    /\ extractionPromises.promises[i] = "pending"
    /\ extractionPromises' =
          [extractionPromises EXCEPT
              !.promises[i] = "fulfilled",
              !.values[i] = [index |-> i],
              !.completed = Append(@, i)]
    /\ UNCHANGED componentVars
    /\ UNCHANGED <<composed, extraction, analysis, reassembly, editCalls, chain, editor>>

\* The decoder call of frame i fails: its promise rejects, Promise.all rejects
\* with it and the handler's catch answers 500 (once).
FrameExtractionFailed(i) ==
    /\ extractionPromises.promises[i] = "pending"
    /\ extractionPromises' =
          IF extractionPromises.pc = "extracting"
          THEN [extractionPromises EXCEPT !.promises[i] = "rejected",
                                          !.pc = "returned",
                                          !.status = 500, !.frames = <<>>]
          ELSE [extractionPromises EXCEPT !.promises[i] = "rejected"]
    /\ UNCHANGED componentVars
    /\ UNCHANGED <<composed, extraction, analysis, reassembly, editCalls, chain, editor>>

\* Every promise is fulfilled: Promise.all resolves, the staged video is
\* unlinked (a rejection reaches the catch) and the route answers.
FramesAllExtracted(stagedVideo) ==
    /\ extractionPromises.pc = "extracting"
    /\ \A i \in ParallelFrameIdx :
          i < extractionPromises.n => extractionPromises.promises[i] = "fulfilled"
    /\ LET frames == ExtractedFrames(extractionPromises.n, extractionPromises.values,
                                     extractionPromises.completed)
       IN extractionPromises' =
             IF Unlink(stagedVideo) = "rejected"
             THEN [extractionPromises EXCEPT !.pc = "returned",
                                             !.status = 500, !.frames = <<>>]
             ELSE [extractionPromises EXCEPT !.pc = "returned",
                                             !.status = 200, !.frames = frames]
    /\ UNCHANGED componentVars
    /\ UNCHANGED <<composed, extraction, analysis, reassembly, editCalls, chain, editor>>

ParallelFramesStep ==
    \/ \E n \in 1..MaxParallelFrames : ParallelFramesStart(n)
    \/ \E i \in ParallelFrameIdx : FrameExtracted(i)
    \/ \E i \in ParallelFrameIdx : FrameExtractionFailed(i)
    \/ \E stagedVideo \in StagedVideoKinds : FramesAllExtracted(stagedVideo)

\* ---------------------------------------------------------- specifications
\* The steps of the runs in flight.
RunStep ==
    \/ AutoStart
    \/ \E r \in RunIds :
          \/ FirstFrameOk(r)
          \/ FirstFrameFail(r)
          \/ DiffOk(r)
          \/ DiffFail(r)
          \/ \E result \in {"valid", "invalid"} : ProbeDone(r, result)
          \/ ReassembleOk(r)
          \/ ReassembleFail(r)
          \/ BackoffElapsed(r)
          \/ \E i \in FanoutIdx : EditOk(r, i) \/ EditFail(r, i)

\* Extraction of a clip of at most MaxFrames frames, and the runs.
PipelineStep ==
    \/ ExtractStart
    \/ \E n \in 0..MaxFrames : ExtractOk(n)
    \/ ExtractFail
    \/ RunStep

\* The same for clips of up to MaxLongFrames frames.
LongStep ==
    \/ ExtractStart
    \/ \E n \in 1..MaxLongFrames : ExtractOk(n)
    \/ ExtractFail
    \/ RunStep

\* Manual assembly: the recovery the editing step offers.
ManualStep ==
    \/ ManualAssemble
    \/ \E r \in RunIds : ManualOk(r) \/ ManualFail(r)

\* Manual assembly pressed again after it failed.
RepeatedManualStep ==
    \/ ManualAssembleWithin(MaxSessionRuns)
    \/ \E r \in RunIds : ManualOk(r) \/ ManualFail(r)

\* Retry and navigation.
NavStep ==
    \/ StartAIEditing
    \/ RetryEditing
    \/ \E step \in Steps \ {"extracting", "reassembling"} : GoToStep(step)
    \/ Reset

Next == PipelineStep \/ ManualStep \/ NavStep

Spec == Init /\ [][Next]_vars

\* One session without retry or navigation: the user presses "Extract Frames"
\* and, where it is offered, "Assemble Video Now".
SessionStep == PipelineStep \/ ManualStep

SpecSession == Init /\ [][SessionStep]_vars

\* One session in which manual assembly may be pressed again and again.
RecoveryStep == PipelineStep \/ RepeatedManualStep

SpecRecovery == Init /\ [][RecoveryStep]_vars

\* One automatic session over a clip longer than the probed prefix.
SpecLong == Init /\ [][LongStep]_vars

\* processFrameWithDiff and the edit-frame route on prompts of every length.
SpecPrompt == Init /\ [][PromptStep]_vars

\* The extract-frames route on clips of every length and rate.
SpecExtraction == Init /\ [][ExtractionStep]_vars

\* The analyze-diff route on analyzer responses of every length.
SpecAnalyze == Init /\ [][AnalyzeStep]_vars

\* The reassemble-video route on two requests, one after the other.
SpecReassembly == Init /\ [][ReassemblyStep]_vars

\* The edit-frame route on concurrent requests.
SpecEditRoute == Init /\ [][EditRouteStep]_vars

\* The sequential chaining handler on one frame list.
SpecChain == Init /\ [][ChainStep]_vars

\* GeminiEditor.editFrames on one frame list.
SpecEditor == Init /\ [][EditorStep]_vars

\* The parallel extraction route on one request.
SpecParallelExtraction == Init /\ [][ParallelExtractionStep]_vars

\* The concurrent decoder calls of one request to the parallel route.
SpecParallelFrames == Init /\ [][ParallelFramesStep]_vars

\* ------------------------------------------------------------ properties
ProcessRuns == {r \in RunIds : runs[r].kind = "process"}
ManualRuns == {r \in RunIds : runs[r].kind = "manual"}

\* The frame index an edited-image URL belongs to.
UrlIndex(url) == url[2]

Indices(frames) == {frames[k].index : k \in 1..Len(frames)}

InFlight(r) == {i \in FanoutIdx : runs[r].edits[i] = "inflight"}
Failed(r) == {i \in FanoutIdx : runs[r].edits[i] = "fail"}
Succeeded(r) == {i \in FanoutIdx : runs[r].edits[i] = "ok"}

\* The fan-out of run r was dispatched.
Dispatched(r) == runs[r].kind = "process" /\ \E i \in FanoutIdx : runs[r].edits[i] # "none"

\* Run r entered its reassembly phase (it set the step to reassembling).
EnteredReassembly(r) == runs[r].kind = "process" /\ runs[r].probesIssued > 0

\* Every automatic reassembly attempt of run r failed and the handler returned.
Exhausted(r) ==
    /\ runs[r].kind = "process" /\ runs[r].pc = "done"
    /\ runs[r].calls # <<>>
    /\ \A c \in 1..Len(runs[r].calls) : runs[r].calls[c] = "fail"

\* C1: whenever a reassembly request is in flight (automatic or manual), the
\* image staged at encoder position k is the edited image of frame k.
C1_StagedInIndexOrder ==
    \A r \in RunIds :
        runs[r].pc = "encode" =>
            LET staged == StagedFiles(RequestBody(runs[r].request))
            IN \A k \in 1..Len(staged) : UrlIndex(staged[k]) = k - 1

\* C2: the prompt composed for a remaining frame is at most 2000 characters
\* long and holds the user's prompt in full.
C2_PromptWithinCeiling ==
    composed # NoRequest =>
        /\ Length(composed.prompt) <= 2000
        /\ \E k \in 1..Len(composed.prompt) :
              composed.prompt[k] = Piece("prompt", 0, composed.originalPrompt)

\* C3: no step issues a reassembly request while a fan-out edit of any run is
\* still in flight.
C3_NoEncodeWhileEditsInFlight ==
    [][(\E r \in RunIds : Len(runs'[r].calls) > Len(runs[r].calls))
          => \A q \in RunIds : InFlight(q) = {}]_vars

\* C4: while a dispatched edit of the run is pending, the step is editing and
\* isProcessing is true.
C4_EditingUntilAllSettled ==
    \A r \in ProcessRuns :
        InFlight(r) # {} => currentStep = "editing" /\ isProcessing

\* C5: when the fan-out has settled with k >= 1 failures, the edited-frame
\* collection holds exactly the reference frame and the n - 1 - k fan-out
\* successes, an error message is shown, and the session rests in the
\* preview-frames step with its controls enabled and the extracted frames kept.
C5_PartialFailureKeepsSuccesses ==
    \A r \in ProcessRuns :
        (Failed(r) # {} /\ InFlight(r) = {}) =>
            /\ Len(editedFrames) = runs[r].n - Cardinality(Failed(r))
            /\ {editedFrames[k] : k \in 1..Len(editedFrames)}
                  = {EditedFrame(r, i) : i \in {0} \cup Succeeded(r)}
            /\ error # "null"
            /\ currentStep = "preview-frames"
            /\ ~isProcessing
            /\ extractedFrames = runs[r].n

\* A fan-out with a failure and a success has settled.
C5_Witness ==
    \E r \in ProcessRuns :
        Failed(r) # {} /\ Succeeded(r) # {} /\ InFlight(r) = {}

\* C6: a run that entered reassembly (set the step to reassembling, probed,
\* called reassembleVideo) had every dispatched edit succeed; so a run with a
\* failed edit never enters it.
C6_ReassemblyOnlyAfterFullSuccess ==
    \A r \in ProcessRuns :
        (EnteredReassembly(r) \/ runs[r].calls # <<>>
            \/ runs[r].pc \in {"validate", "encode", "backoff"})
          => \A i \in 1..(runs[r].n - 1) : runs[r].edits[i] = "ok"

\* One run ended by a failed edit after another edit succeeded, and another
\* run entered reassembly after its fan-out.
C6_Witness ==
    \E r, q \in ProcessRuns :
        /\ Failed(r) # {} /\ Succeeded(r) # {} /\ InFlight(r) = {}
        /\ runs[r].pc = "done" /\ runs[r].calls = <<>>
        /\ runs[q].n > 1 /\ EnteredReassembly(q) /\ runs[q].calls # <<>>

\* C7: a reassembly request that answered with a video carried every index
\* of 0..frameCount-1.
C7_GapsAreFatal ==
    \A r \in RunIds :
        (runs[r].calls # <<>> /\ runs[r].calls[Len(runs[r].calls)] = "ok")
          => Indices(runs[r].request) = 0..(runs[r].n - 1)

\* C8: when both automatic attempts failed (and no manual assembly has been
\* started since), the step is editing, isProcessing is false, no error is
\* set, all n edited frames are held, manual assembly is offered and the
\* auto-start effect is not triggered.
C8_ExhaustedRetriesRecoverable ==
    \A r \in ProcessRuns :
        (Exhausted(r) /\ ManualRuns = {}) =>
            /\ currentStep = "editing"
            /\ ~isProcessing
            /\ error = "null"
            /\ Len(editedFrames) = runs[r].n
            /\ Indices(editedFrames) = 0..(runs[r].n - 1)
            /\ ManualOffered
            /\ ~AutoStartCond

\* Both automatic attempts of a run over a full fan-out failed.
C8_Witness ==
    \E r \in ProcessRuns :
        Exhausted(r) /\ ManualRuns = {} /\ runs[r].n = MaxFrames /\ Len(runs[r].calls) = 2

\* C9: an automatic run calls reassembleVideo at most twice; every call but
\* the last one failed; each call after the first follows an elapsed wait;
\* and there is at most one wait, so none follows the second failure.
C9_AtMostTwoAttempts ==
    \A r \in ProcessRuns :
        LET calls == runs[r].calls
        IN /\ Len(calls) <= 2
           /\ \A c \in 1..(Len(calls) - 1) : calls[c] = "fail"
           /\ Len(calls) <= runs[r].waitsElapsed + 1
           /\ runs[r].waitsElapsed <= runs[r].waits
           /\ runs[r].waits <= 1
           /\ runs[r].waits <= Cardinality({c \in 1..Len(calls) : calls[c] = "fail"})
           /\ (runs[r].pc = "backoff") = (runs[r].waits > runs[r].waitsElapsed)

\* A run whose first attempt failed and whose second attempt, made after the
\* wait, failed too.
C9_Witness ==
    \E r \in ProcessRuns :
        runs[r].calls = <<"fail", "fail">> /\ runs[r].waits = 1 /\ runs[r].pc = "done"

\* Run r has been superseded: a later handleProcessFrames run has started.
Superseded(r) ==
    runs[r].kind = "process" /\ \E q \in ProcessRuns : q > r

\* C10: the completion of an edit call of a superseded run leaves the
\* edited-frame collection, the progress value and the step unchanged.
C10_SupersededCompletionsIgnored ==
    [][\A r \in RunIds :
          (Superseded(r) /\ \E i \in InFlight(r) : runs'[r].edits[i] # "inflight")
            => /\ editedFrames' = editedFrames
               /\ progress' = progress
               /\ currentStep' = currentStep]_vars

\* The handler invocations that have not returned yet.
RunsInFlight == {r \in RunIds : runs[r].kind # "none" /\ runs[r].pc # "done"}

\* C11: at most one run (handleProcessFrames or handleManualAssemble) is in
\* flight at any time, and isProcessing is true whenever a run is in flight.
C11_OneRunInFlight ==
    /\ Cardinality(RunsInFlight) <= 1
    /\ RunsInFlight # {} => isProcessing

\* C12: the indices of the edited-frame collection are pairwise different and
\* every one of them is an index of a currently held extracted frame.
C12_EditedIndicesWithinExtracted ==
    /\ Cardinality(Indices(editedFrames)) = Len(editedFrames)
    /\ Indices(editedFrames) \subseteq 0..(extractedFrames - 1)

\* C13: within one run, the step that issues the diff-analysis call is the
\* one in which the reference-frame edit answered successfully and its
\* EditedFrame was recorded; the step that dispatches the remaining-frame edits
\* is the one in which the diff analysis answered successfully; and a run that
\* dispatched them holds the reference frame first in its list.
C13_ReferenceThenDiffThenFanout ==
    [][\A r \in RunIds :
          /\ (runs'[r].pc = "diff" /\ runs[r].pc # "diff")
                => /\ runs[r].pc = "firstFrame"
                   /\ editedFrames' = <<EditedFrame(r, 0)>>
                   /\ diffData'.firstFrameEdited = r
          /\ (InFlight(r)' # {} /\ runs[r].edits = NoRun.edits)
                => /\ runs[r].pc = "diff"
                   /\ diffData'.detailedDiff = r
                   /\ runs'[r].allEditedFrames = <<EditedFrame(r, 0)>>
          /\ runs'[r].edits # NoRun.edits => runs'[r].pc # "firstFrame" /\ runs'[r].pc # "diff"]_vars

\* A run has dispatched its fan-out after the reference frame and the diff.
C13_Witness ==
    \E r \in ProcessRuns :
        /\ runs[r].pc = "fanout" /\ InFlight(r) # {}
        /\ diffData = [detailedDiff |-> r, firstFrameEdited |-> r]
        /\ editedFrames = <<EditedFrame(r, 0)>>

\* C14: when the reference-frame edit or the diff analysis of a run fails, the
\* run has dispatched no remaining-frame edit and no reassembly call (and no
\* probe) and never does afterwards, the error message is set, the step is
\* preview-frames with isProcessing false, and the extracted frames are kept.
C14_EarlyFailureAborts ==
    [][\A r \in ProcessRuns :
          /\ (runs[r].pc \in {"firstFrame", "diff"} /\ runs'[r].pc = "done")
                => /\ error' \in {"First frame editing failed", "Diff analysis failed"}
                   /\ currentStep' = "preview-frames"
                   /\ ~isProcessing'
                   /\ extractedFrames' = extractedFrames
                   /\ runs'[r].edits = NoRun.edits
                   /\ runs'[r].calls = <<>>
                   /\ runs'[r].probesIssued = 0
          /\ (runs[r].pc = "done" /\ runs[r].edits = NoRun.edits /\ runs[r].calls = <<>>)
                => runs'[r] = runs[r]]_vars

\* The diff analysis of a run failed after its reference frame was edited.
C14_Witness ==
    \E r \in ProcessRuns :
        /\ runs[r].pc = "done" /\ runs[r].calls = <<>> /\ runs[r].edits = NoRun.edits
        /\ error = "Diff analysis failed"
        /\ editedFrames = <<EditedFrame(r, 0)>>
        /\ currentStep = "preview-frames"
        /\ extractedFrames = runs[r].n /\ runs[r].n > 1

\* C15: while the error of a failed extraction is attached, the session rests
\* in the setup step with isProcessing false, holds no extracted and no edited
\* frame, has started no run (so dispatched no edit call) and the auto-start
\* effect is not triggered; and no step taken from such a state stores a frame
\* or starts a run.
C15_FailedExtractionStopsSession ==
    /\ [](error = "Failed to extract frames" =>
            /\ currentStep = "setup"
            /\ ~isProcessing
            /\ extractedFrames = 0
            /\ editedFrames = <<>>
            /\ ProcessRuns = {} /\ ManualRuns = {}
            /\ ~AutoStartCond)
    /\ [][error = "Failed to extract frames" =>
            /\ extractedFrames' = extractedFrames
            /\ runs' = runs]_vars

\* An extraction request has failed.
C15_Witness ==
    /\ error = "Failed to extract frames"
    /\ extracting = 0
    /\ currentStep = "setup"

\* C16: a failed diff analysis does not fail the session: no run has ended
\* with the diff-analysis error attached (the session would go on by semantic
\* chaining instead).
C16_DiffFailureFallsBackToChaining ==
    \A r \in ProcessRuns :
        ~(runs[r].pc = "done" /\ error = "Diff analysis failed")

\* C17: a run probes at most 3 URLs (min(3, request length)); a probe that
\* settles, whatever its result, leaves the step, the error and isProcessing
\* alone and keeps the run going; and the step in which the last probe settles
\* issues the first reassembly attempt, also when a probe failed or threw.
C17_ProbesNeverBlockReassembly ==
    /\ [](\A r \in ProcessRuns :
            /\ runs[r].probesIssued <= 3
            /\ runs[r].pc = "validate" => runs[r].probesPending > 0
            /\ EnteredReassembly(r) =>
                  runs[r].probesIssued = Min(3, Len(runs[r].request)))
    /\ [][\A r \in ProcessRuns :
            (runs[r].pc = "validate" /\ runs'[r] # runs[r]) =>
                /\ runs'[r].probesPending = runs[r].probesPending - 1
                /\ currentStep' = currentStep
                /\ error' = error
                /\ isProcessing' = isProcessing
                /\ IF runs'[r].probesPending = 0
                   THEN /\ runs'[r].pc = "encode"
                        /\ runs'[r].reassemblyAttempt = 1
                        /\ runs'[r].calls = <<"pending">>
                   ELSE runs'[r].pc = "validate" /\ runs'[r].calls = <<>>]_vars

\* A run over more frames than probes made its first reassembly attempt after
\* a probe reported an invalid URL.
C17_Witness ==
    \E r \in ProcessRuns :
        /\ Len(runs[r].request) > 3 /\ runs[r].probesIssued = 3
        /\ runs[r].allUrlsValid = "invalid"
        /\ runs[r].calls = <<"pending">>
        /\ currentStep = "reassembling"

\* The step makes an edit or a reassembly call of some run fail.
FailureStep ==
    \E r \in RunIds :
        \/ \E i \in FanoutIdx : runs[r].edits[i] # "fail" /\ runs'[r].edits[i] = "fail"
        \/ /\ runs[r].calls # <<>> /\ Len(runs'[r].calls) = Len(runs[r].calls)
           /\ runs[r].calls[Len(runs[r].calls)] = "pending"
           /\ runs'[r].calls[Len(runs[r].calls)] = "fail"

\* C18: a step in which a fan-out edit, an automatic reassembly attempt or a
\* manual assembly fails leaves the edited-frame collection as it was; a
\* manual assembly makes one encode attempt and no wait; and when it fails the
\* step is editing, the error is set, isProcessing is false and "Assemble
\* Video Now" is offered again.
C18_LaterFailuresKeepEditedFrames ==
    /\ [](\A r \in ManualRuns :
            /\ Len(runs[r].calls) = 1
            /\ runs[r].waits = 0 /\ runs[r].probesIssued = 0)
    /\ [][FailureStep => editedFrames' = editedFrames]_vars
    /\ [][\A r \in ManualRuns :
            (runs[r].pc = "encode" /\ runs'[r].pc = "done" /\ runs'[r].calls = <<"fail">>)
              => /\ currentStep' = "editing"
                 /\ error' = "Manual assembly failed"
                 /\ ~isProcessing'
                 /\ editedFrames' = editedFrames
                 /\ ManualOffered']_vars

\* Manual assembly failed, was pressed again and failed again, and every
\* edited frame is still held.
C18_Witness ==
    \E r, q \in ManualRuns :
        /\ r # q
        /\ runs[r].calls = <<"fail">> /\ runs[q].calls = <<"fail">>
        /\ runs[q].pc = "done"
        /\ Len(editedFrames) = MaxFrames
        /\ ManualOffered

\* C19: a successful answer of the extraction route holds at most maxFrames
\* frames, the frame at position k has index k (so the indices are 0..k-1),
\* and the timestamp strictly increases with the index.
C19_ExtractionBoundedAndOrdered ==
    extraction.status = 200 =>
        LET frames == extraction.frames
        IN /\ Len(frames) <= extraction.maxFrames
           /\ \A k \in 1..Len(frames) : frames[k].index = k - 1
           /\ \A j, k \in 1..Len(frames) :
                 frames[j].index < frames[k].index
                    => Less(frames[j].timestamp, frames[k].timestamp)

\* The route answered a clip that has more sampled frames than were asked
\* for, with several frames at a rate that is not a whole number.
C19_Witness ==
    /\ extraction.status = 200
    /\ Len(extraction.frames) = extraction.maxFrames
    /\ Len(extraction.frames) > 1
    /\ extraction.interval > 1
    /\ extraction.file.fps = <<2997, 100>>
    /\ extraction.file.durationMs = MaxDurationMs

\* C20: the detailedDiff the analyze-diff route returns is at most 5000
\* characters long, and a response of at most 5000 characters is returned as
\* it is.
C20_DiffAtMost5000 ==
    analysis.status = 200 =>
        /\ Length(analysis.detailedDiff) <= 5000
        /\ analysis.response <= 5000
              => analysis.detailedDiff = <<Piece("response", 0, analysis.response)>>

\* A response longer than the limit was cut to exactly 5000 characters: its
\* first 4997 and the ellipsis.
C20_Witness ==
    /\ analysis.status = 200
    /\ analysis.response = 5001
    /\ Length(analysis.detailedDiff) = 5000
    /\ analysis.detailedDiff = <<Piece("response", 0, 4997), Piece("ellipsis", 0, 3)>>

\* C21: when the reassemble-video route has returned, no temporary file and
\* no temporary directory of that request is on disk.
C21_NoTemporaryArtifactsLeft ==
    \A c \in CallIds :
        reassembly[c].pc = "returned" =>
            /\ reassembly[c].files = {}
            /\ ~reassembly[c].tempVideo
            /\ ~reassembly[c].tempDir

\* C22: cleanup is best-effort: when the probe found a video stream and the
\* decoder extracted the frames, the extraction route answers 200 whether or
\* not the staged video is still there when the cleanup runs.
C22_CleanupIsBestEffort ==
    (/\ extraction.status \in {200, 500}
     /\ extraction.file.hasVideoStream
     /\ extraction.decoderOk)
        => extraction.status = 200

\* A reference that is a data:image/ URI, and one that is an http(s) URL.
IsDataImageUri(ref) == ref.head = <<"data:", "image/">>
IsHttpUrl(ref) == ref.head \in {<<"http", "://">>, <<"http", "s://">>}

\* The inputs C23 lists: a missing prompt, no images, a prompt longer than
\* 2000 characters, a reference that is neither a data:image/ URI nor an
\* http URL, an oversize data URI.
ListedBadInput(call) ==
    \/ Length(call.prompt) = 0
    \/ Len(call.imageUrls) = 0
    \/ Length(call.prompt) > PromptCeiling
    \/ \E i \in 1..Len(call.imageUrls) :
          \/ ~IsDataImageUri(call.imageUrls[i]) /\ ~IsHttpUrl(call.imageUrls[i])
          \/ IsDataImageUri(call.imageUrls[i]) /\ call.imageUrls[i].length > MaxDataUriLen

\* The inputs the route's checks reject, read off the prefixes it tests.
PrefixBadInput(call) ==
    \/ Length(call.prompt) = 0
    \/ Len(call.imageUrls) = 0
    \/ Length(call.prompt) > PromptCeiling
    \/ \E i \in 1..Len(call.imageUrls) :
          \/ /\ ~StartsWith(call.imageUrls[i], <<"data:", "image/">>)
             /\ ~StartsWith(call.imageUrls[i], <<"http">>)
          \/ /\ StartsWith(call.imageUrls[i], <<"data:">>)
             /\ call.imageUrls[i].length > MaxDataUriLen

\* C23 as stated: every listed bad input is answered 400 with no call of the
\* edit service.
C23_BadInputAnswered400 ==
    \A c \in EditCallIds :
        (editCalls[c].pc = "answered" /\ ListedBadInput(editCalls[c]))
            => editCalls[c].status = 400 /\ ~editCalls[c].called

\* C23, amended: with the service key configured, a request with a missing
\* prompt, no images, a prompt longer than 2000 characters, a reference that
\* starts with neither data:image/ nor http, or a data: URI longer than 10 MB
\* is answered 400; the edit service is called only when the key is there and
\* none of these holds; and an answer changes the record of its own call only.
C23_ChecksBeforeExternalCall ==
    /\ [](\A c \in EditCallIds :
            editCalls[c].pc = "answered" =>
                /\ (editCalls[c].keyConfigured /\ PrefixBadInput(editCalls[c]))
                       => editCalls[c].status = 400
                /\ editCalls[c].called
                       <=> (editCalls[c].keyConfigured /\ ~PrefixBadInput(editCalls[c])))
    /\ [][\A c, d \in EditCallIds :
            (c # d /\ editCalls'[c] # editCalls[c]) => editCalls'[d] = editCalls[d]]_vars

\* One request is rejected for its second image while the edit of another
\* request failed at the service.
C23_Witness ==
    \E c, d \in EditCallIds :
        /\ c # d
        /\ editCalls[c].pc = "answered" /\ editCalls[c].keyConfigured
        /\ Length(editCalls[c].prompt) = PromptCeiling
        /\ Len(editCalls[c].imageUrls) = 2
        /\ ~RejectedImage(editCalls[c].imageUrls[1])
        /\ RejectedImage(editCalls[c].imageUrls[2])
        /\ editCalls[c].status = 400 /\ ~editCalls[c].called
        /\ editCalls[d].pc = "answered" /\ editCalls[d].called
        /\ editCalls[d].status = 422

\* C24: with "Max Frames to Process" left empty, a successful extraction
\* returns floor(totalFrames / interval) frames.
C24_UnlimitedAppliesNoCap ==
    (extraction.status = 200 /\ extraction.unlimited) =>
        LET totalFrames == TotalFrames(extraction.file.durationMs, extraction.file.fps)
        IN ~totalFrames.nan
              => Len(extraction.frames) = totalFrames.val \div Max(1, extraction.interval)

\* C25: every successful reassembly encodes one frame per entry of its list,
\* in list order, so two successful calls with the same list give videos of
\* the same frames, whatever an earlier call left behind.
C25_SameListSameVideo ==
    \A c, d \in CallIds :
        reassembly[c].status = 200 =>
            /\ Len(reassembly[c].video) = Len(reassembly[c].frames)
            /\ \A k \in 1..Len(reassembly[c].frames) :
                  reassembly[c].video[k] = FrameImage(reassembly[c].frames[k])
            /\ (reassembly[d].status = 200 /\ reassembly[d].frames = reassembly[c].frames)
                  => reassembly[d].video = reassembly[c].video

\* Two calls with the same list of two different references both succeeded.
C25_Witness ==
    /\ reassembly[1].status = 200 /\ reassembly[2].status = 200
    /\ reassembly[1].frames = reassembly[2].frames
    /\ Len(reassembly[1].frames) = 2
    /\ FrameImage(reassembly[1].frames[1]) # FrameImage(reassembly[1].frames[2])
    /\ Len(reassembly[2].video) = 2

\* C26: the j-th completion of a run's fan-out publishes current = 2 + j and
\* currentFrame = the index of the frame it pushed; the published current
\* grows with j and stays within total.
C26_ProgressFollowsCompletionOrder ==
    \A r \in RunIds :
        LET published == runs[r].fanoutProgress
        IN /\ Len(published) = runs[r].completedFrames
           /\ \A j \in 1..Len(published) :
                 /\ published[j].current = 2 + j
                 /\ published[j].currentFrame = runs[r].allEditedFrames[j + 1].index
                 /\ published[j].current <= published[j].total
                 /\ \A k \in 1..Len(published) :
                       j <= k => published[j].current <= published[k].current

\* Frame 2 completed before frame 1.
C26_Witness ==
    \E r \in RunIds :
        /\ Len(runs[r].fanoutProgress) = 2
        /\ runs[r].fanoutProgress[1].currentFrame = 2
        /\ runs[r].fanoutProgress[2].currentFrame = 1

\* The number of frames with index i a run has pushed.
AppendsAt(r, i) ==
    Cardinality({k \in 1..Len(runs[r].allEditedFrames) :
                    runs[r].allEditedFrames[k].index = i})

\* C27: leaving the diff analysis for the fan-out dispatches one edit for
\* each index 1..n-1 at once, and a run has pushed exactly one frame for every
\* index whose edit succeeded and none for any other index.
C27_OneAppendPerDispatchedIndex ==
    /\ [](\A r \in RunIds : \A i \in FanoutIdx :
            AppendsAt(r, i) = IF runs[r].edits[i] = "ok" THEN 1 ELSE 0)
    /\ [][\A r \in RunIds :
            (runs[r].pc = "diff" /\ runs'[r].pc = "fanout")
                => \A i \in FanoutIdx :
                      runs'[r].edits[i] = IF i <= runs[r].n - 1 THEN "inflight" ELSE "none"]_vars
    /\ [][\A r \in RunIds : \A i \in FanoutIdx :
            (runs[r].edits[i] = "none" /\ runs'[r].edits[i] # "none")
                => runs[r].pc = "diff"]_vars

\* The edit of frame 1 failed and rejected the fan-out; the edit of frame 2
\* succeeded afterwards and was appended.
C27_Witness ==
    \E r \in RunIds :
        /\ runs[r].n = 3 /\ runs[r].pc = "done"
        /\ runs[r].edits[1] = "fail" /\ runs[r].edits[2] = "ok"
        /\ Len(runs[r].allEditedFrames) = 2
        /\ runs[r].allEditedFrames[2].index = 2

\* The requests of one kind the chaining loop has issued for loop position i.
IssuedFor(kind, i) ==
    {k \in 1..Len(chain.issued) : chain.issued[k].kind = kind /\ chain.issued[k].frame = i}

\* C28: the chaining loop requests the edit of a frame only when every earlier
\* frame has been edited and pushed; while frame i > 0 is processed the list
\* holds the frames 0..i-1 in order; the merge instruction of frame i is
\* requested with the edited image of frame i-1; and after a failed edit
\* nothing more is requested.
C28_SequentialChaining ==
    /\ [](\A k \in 1..Len(chain.issued) :
            LET request == chain.issued[k]
            IN /\ request.frame <= Len(chain.processedFrames)
               /\ Cardinality(IssuedFor(request.kind, request.frame)) = 1
               /\ \A j \in 1..Len(chain.issued) :
                     j < k => chain.issued[j].frame <= request.frame
               /\ (request.kind = "semantic")
                     => /\ request.frame > 0
                        /\ request.images[2]
                              = chain.processedFrames[request.frame].editedUrl
                        /\ request.images[2].frame = request.frame - 1)
    /\ [](chain.pc \in {"semantic", "edit"} =>
            /\ Len(chain.processedFrames) = chain.i
            /\ \A k \in 1..chain.i : chain.processedFrames[k].index = k - 1)
    /\ [][chain.pc = "failed" => chain' = chain]_vars

\* The edits of frames 0 and 1 succeeded, frame 2 was requested with frame 1's
\* edited image as the reference, and its edit failed.
C28_Witness ==
    /\ chain.pc = "failed" /\ chain.n = 4 /\ chain.i = 2
    /\ Len(chain.processedFrames) = 2
    /\ \E k \in 1..Len(chain.issued) :
          /\ chain.issued[k].kind = "edit" /\ chain.issued[k].frame = 2
          /\ Len(chain.issued[k].images) = 2
          /\ chain.issued[k].images[2] = chain.processedFrames[2].editedUrl

\* C29: every edit request editFrames sends for a frame i > 0 carries, as its
\* reference image, the editedUrl of the EditedFrame of frame i-1.
C29_ReferenceIsPredecessorEdit ==
    \A k \in 1..Len(editor.issued) :
        LET request == editor.issued[k]
        IN request.frame > 0 =>
              /\ Len(request.images) = 2
              /\ request.images[2] = editor.editedFrames[request.frame].editedUrl

\* C30: a successful answer of the parallel extraction route holds at most
\* 50 frames, whatever maxFrames was requested.
C30_AtMostFiftyFrames ==
    extraction.status = 200 => Len(extraction.frames) <= SafetyLimit

\* C31: editFrames pushes one EditedFrame for every frame it has handled, in
\* input order, a failed frame with its original image as editedUrl; every
\* settled request moves the loop on, and the call returns with one
\* EditedFrame per input frame and never rejects.
C31_OneEditedFramePerInput ==
    /\ [](/\ editor.pc \in {"idle", "edit", "returned"}
          /\ Len(editor.editedFrames) = editor.i
          /\ editor.pc = "returned" => Len(editor.editedFrames) = editor.n
          /\ \A k \in 1..Len(editor.editedFrames) :
                /\ editor.editedFrames[k].index = k - 1
                /\ editor.editedFrames[k].editedUrl.frame = k - 1
                /\ editor.editedFrames[k].editedUrl.kind \in {"edited", "original"})
    /\ [][editor.pc = "edit" =>
            /\ editor'.pc \in {"edit", "returned"}
            /\ editor'.i = editor.i + 1
            /\ SubSeq(editor'.editedFrames, 1, editor.i) = editor.editedFrames]_vars

\* editFrames returned on three frames of which the second had failed.
C31_Witness ==
    /\ editor.pc = "returned" /\ editor.n = 3
    /\ editor.editedFrames[1].editedUrl.kind = "edited"
    /\ editor.editedFrames[2].editedUrl = OriginalImage(1)
    /\ editor.editedFrames[3].editedUrl.kind = "edited"

\* C32: a navigation to setup clears the extracted frames, the edited frames,
\* the video and the diff data; one to preview-frames clears the edited
\* frames, the video and the diff data and keeps the extracted frames; one to
\* editing clears the video and keeps the extracted frames, the edited frames
\* and the diff data.
C32_GoToStepClearsLaterSteps ==
    [][/\ GoToStep("setup") =>
            /\ extractedFrames' = 0 /\ editedFrames' = <<>>
            /\ editedVideoUrl' = NullVideo /\ diffData' = NoDiff
       /\ GoToStep("preview-frames") =>
            /\ editedFrames' = <<>> /\ editedVideoUrl' = NullVideo /\ diffData' = NoDiff
            /\ extractedFrames' = extractedFrames
       /\ GoToStep("editing") =>
            /\ editedVideoUrl' = NullVideo
            /\ extractedFrames' = extractedFrames
            /\ editedFrames' = editedFrames
            /\ diffData' = diffData]_vars

\* A video had been assembled and handed over; the user went back to the
\* editing step: the video is gone, the frames and the diff data are kept.
C32_Witness ==
    /\ currentStep = "editing"
    /\ onCompleteCalls # <<>>
    /\ editedVideoUrl = NullVideo
    /\ extractedFrames > 1
    /\ Len(editedFrames) = extractedFrames
    /\ diffData # NoDiff

\* C33: a successful extraction of at least one frame leaves the auto-start
\* condition true; while it is true the only step taken is the effect's call
\* of handleProcessFrames, so editing starts before any user action; and the
\* effect fires only with isProcessing false and no edited frame held.
C33_AutoStartAfterExtraction ==
    /\ [][(extracting' < extracting /\ extractedFrames' > 0 /\ currentStep' = "editing")
             => AutoStartCond']_vars
    /\ [][AutoStartCond => (AutoStart /\ isProcessing')]_vars
    /\ [][AutoStart => (~isProcessing /\ Len(editedFrames) = 0)]_vars

\* C34: whatever the merge-instruction request answers, the edit of the same
\* frame is requested next; the edit of a frame i > 0 carries the generated
\* instruction and the previous edited frame, or the fallback prompt and the
\* current frame alone.
C34_SemanticFailureFallsBack ==
    /\ [](\A k \in 1..Len(chain.issued) :
            LET request == chain.issued[k]
            IN (request.kind = "edit" /\ request.frame > 0) =>
                  \/ /\ request.prompt = "semantic"
                     /\ request.images
                           = <<OriginalImage(request.frame),
                               chain.processedFrames[request.frame].editedUrl>>
                  \/ /\ request.prompt = "fallback"
                     /\ request.images = <<OriginalImage(request.frame)>>)
    /\ [][chain.pc = "semantic" =>
            /\ chain'.pc = "edit" /\ chain'.i = chain.i
            /\ Len(chain'.issued) = Len(chain.issued) + 1
            /\ chain'.issued[Len(chain'.issued)].kind = "edit"
            /\ chain'.issued[Len(chain'.issued)].frame = chain.i]_vars

\* Frame 1 was edited with the fallback prompt and pushed, and the loop has
\* gone on to frame 2, whose instruction was generated.
C34_Witness ==
    /\ Len(chain.processedFrames) >= 2
    /\ \E k \in 1..Len(chain.issued) :
          /\ chain.issued[k].kind = "edit" /\ chain.issued[k].frame = 1
          /\ chain.issued[k].prompt = "fallback"
    /\ \E k \in 1..Len(chain.issued) :
          /\ chain.issued[k].kind = "edit" /\ chain.issued[k].frame = 2
          /\ chain.issued[k].prompt = "semantic"

\* C35: the parallel route answers 200 only with frame i at position i,
\* whatever the order in which the decoder calls completed, and once any
\* decoder call has failed the answer is 500 with no frames.
C35_ParallelOrderAndAllOrNothing ==
    LET p == extractionPromises
    IN /\ (p.pc = "returned" /\ p.status = 200) =>
             /\ Len(p.frames) = p.n
             /\ \A k \in 1..p.n : p.frames[k].index = k - 1
       /\ (\E i \in ParallelFrameIdx : p.promises[i] = "rejected") =>
             /\ p.pc = "returned" /\ p.status = 500 /\ p.frames = <<>>
       /\ p.pc = "returned" => p.status \in {200, 500}
       /\ p.status = 500 => p.frames = <<>>

\* Three decoder calls completed in the order 2, 0, 1 and the route answered
\* with the three frames.
C35_Witness ==
    /\ extractionPromises.pc = "returned"
    /\ extractionPromises.status = 200
    /\ extractionPromises.completed = <<2, 0, 1>>
    /\ Len(extractionPromises.frames) = 3

\* C36: the reassemble-video route invokes the encoder only with every frame
\* of the request written to disk; a request with a frame that has neither
\* base64 nor url, or whose fetch failed, is answered 500 with no video and no
\* encoder run; a frames field that is empty or no array is answered 400 with
\* no directory made and no frame processed.
C36_EncoderOnlyAfterStaging ==
    \A c \in CallIds :
        LET call == reassembly[c]
        IN /\ call.encoderInvoked =>
                 \A k \in 1..Len(call.frames) : call.fetch[k] = "written"
           /\ call.status = 200 => call.encoderInvoked
           /\ (\E k \in 1..Len(call.frames) :
                  \/ FrameSource(call.frames[k]) = "invalid"
                  \/ call.fetch[k] = "failed") =>
                 /\ ~call.encoderInvoked
                 /\ call.pc = "returned" /\ call.status = 500 /\ call.video = <<>>
           /\ (call.pc # "idle" /\ (call.input # "array" \/ Len(call.frames) = 0)) =>
                 /\ call.pc = "returned" /\ call.status = 400
                 /\ ~call.tempDir /\ call.files = {} /\ ~call.encoderInvoked
                 /\ \A k \in StagedIdx : call.fetch[k] = "none"

\* The first request held a frame with neither base64 nor url after a good
\* one, the second lost the fetch of its second frame after the first was
\* written: both were answered 500.
C36_Witness ==
    /\ reassembly[1].status = 500 /\ reassembly[2].status = 500
    /\ Len(reassembly[1].frames) = 2
    /\ FrameSource(reassembly[1].frames[1]) = "url"
    /\ FrameSource(reassembly[1].frames[2]) = "invalid"
    /\ Len(reassembly[2].frames) = 2
    /\ reassembly[2].fetch[1] = "written"
    /\ reassembly[2].fetch[2] = "failed"

\* C37: while the step is setup, no step of a run in flight moves it to
\* reassembling, complete or preview-frames, and none puts a frame into the
\* empty edited-frame collection.
C37_SetupHoldsAgainstRunInFlight ==
    [][currentStep = "setup" =>
          /\ currentStep' \notin {"reassembling", "complete", "preview-frames"}
          /\ editedFrames = <<>> => editedFrames' = <<>>]_vars

\* C38: every step that brings the editor to the complete step with a newly
\* assembled video hands exactly that video to onComplete, once.
C38_OnCompleteOncePerVideo ==
    [][(/\ currentStep' = "complete"
        /\ editedVideoUrl' # NullVideo
        /\ editedVideoUrl' # editedVideoUrl)
          => onCompleteCalls' = Append(onCompleteCalls, editedVideoUrl')]_vars

\* C39: with no extracted frame the auto-start effect does not fire and no
\* process run begins; handleProcessFrames then only sets the error and
\* leaves the step and everything else alone; with no edited frame no manual
\* assembly begins.
C39_NoDispatchOnZeroFrames ==
    /\ [][AutoStart => extractedFrames > 0]_vars
    /\ [][extractedFrames = 0 =>
             \A r \in RunIds : runs[r].kind = "none" => runs'[r].kind # "process"]_vars
    /\ [][(extractedFrames = 0 /\ (RetryEditing \/ StartAIEditing)) =>
             /\ error' = "No frames available to process"
             /\ currentStep' = currentStep
             /\ runs' = runs /\ isProcessing' = isProcessing]_vars
    /\ [][Len(editedFrames) = 0 =>
             \A r \in RunIds : runs[r].kind = "none" => runs'[r].kind # "manual"]_vars

\* The extraction returned no frame, "Retry Editing" was pressed, and no run
\* was ever started.
C39_Witness ==
    /\ currentStep = "editing" /\ extracting = 0
    /\ extractedFrames = 0 /\ editedFrames = <<>>
    /\ error = "No frames available to process"
    /\ ~isProcessing
    /\ \A r \in RunIds : runs[r] = NoRun

====
